---- MODULE Spec2Model ----
(***************************************************************************)
(* Measurable-IR construction of pymc/logprob/opt.py: the provenance       *)
(* tracker PreserveRVMappings, the rewrite rules and the three-stage       *)
(* rewrite pipeline driven by construct_ir_fgraph.                         *)
(*                                                                         *)
(* A Variable is a positive integer, the index of its record in the node   *)
(* store g.  A record holds the Op of the Variable's owner ("Input" when   *)
(* the Variable has no owner), the owner's inputs, and the Op's own        *)
(* parameters.                                                             *)
(***************************************************************************)
EXTENDS Integers, Sequences, FiniteSets, TLC

\* Largest number of Variables in the graph the caller hands over.
MaxInit == 3
\* Variables the tracker-level specification draws keys and values from.
TrackVars == 2
\* Length of the array-valued variables of the partial-observation rule.
VecLen == 4
\* Variables one rewritten Variable of the caller's graph can add to the store.
FreshPerVar == 4
MaxVars == MaxInit * (2 + FreshPerVar)

VARIABLES
    g,                \* node store: Variable -> its record
    outputs,          \* fgraph.outputs
    rv_values,        \* PreserveRVMappings.rv_values
    original_values,  \* PreserveRVMappings.original_values
    supplied,         \* the keys the caller supplied (after cloning)
    n0,               \* number of Variables of the caller's graph
    pc,               \* stage of logprob_rewrites_db, or "done" / "raised"
    queue,            \* nodes still to visit in the current sweep
    visited,          \* nodes visited in the current sweep
    fired,            \* replacements made in the current sweep
    sweeps,           \* sweeps begun so far, per stage
    last,             \* the latest call and what it returned
    preserve_rv_mappings,  \* fgraph.preserve_rv_mappings, "none" when not set
    caller,           \* the rv_values dict the caller passed
    memo,             \* memo: Variable of the caller -> Variable of the clone
    other,            \* a second call of construct_ir_fgraph, not running now
    compound,         \* a CompoundStep and the call of its step method
    memoized,         \* a function under memoize: its cache and its calls
    adagrad           \* the shared variables of adagrad_optimizer's updates

vars == <<g, outputs, rv_values, original_values, supplied, n0, pc, queue,
          visited, fired, sweeps, last, preserve_rv_mappings, caller, memo,
          other, compound, memoized, adagrad>>

\* Python's None
NoneV == 0

Range(s) == {s[i] : i \in DOMAIN s}
Max(a, b) == IF a >= b THEN a ELSE b

\* No CompoundStep has been built
NoCompound == [pc |-> "none"]

\* No function has been wrapped by memoize
NoMemoize == [pc |-> "none"]

\* No optimizer has been made
NoOptimizer == [pc |-> "none"]

(***************************************************************************)
(* dict operations                                                         *)
(***************************************************************************)
Pop(d, k) == [x \in (DOMAIN d) \ {k} |-> d[x]]
Put(d, k, v) == [x \in (DOMAIN d) \cup {k} |-> IF x = k THEN v ELSE d[x]]
EmptyDict == [x \in {} |-> NoneV]

(***************************************************************************)
(* PreserveRVMappings                                                      *)
(***************************************************************************)
\* __init__: original_values = {v: v for v in rv_values.values()}
TrackerInit(rv) == [v \in Range(rv) |-> v]

\* on_attach that sets the attribute without looking for an earlier tracker
on_attach_overwrite(attr, self) == [err |-> FALSE, attr |-> self]

\* on_attach: fgraph.preserve_rv_mappings afterwards, and whether
\* ValueError was raised.  attr is "none" when the graph has no such
\* attribute.
on_attach(attr, self) ==
    IF attr # "none"
    THEN [err |-> TRUE, attr |-> attr]
    ELSE [err |-> FALSE, attr |-> self]

\* update_rv_maps with new_rv already a key: keeps the entry of old_rv too
update_rv_maps_keep(rv, ov, old_rv, new_value, new_rv) ==
    IF old_rv \notin DOMAIN rv
    THEN [err |-> TRUE, rv |-> rv, ov |-> ov]
    ELSE LET old_value == rv[old_rv]
             key == IF new_rv = NoneV THEN old_rv ELSE new_rv
         IN IF old_value \notin DOMAIN ov
            THEN [err |-> TRUE, rv |-> rv, ov |-> ov]
            ELSE [err |-> FALSE,
                  rv  |-> Put(rv, key, new_value),
                  ov  |-> Put(ov, new_value, ov[old_value])]

\* update_rv_maps that records the new value as its own original
update_rv_maps_selforig(rv, ov, old_rv, new_value, new_rv) ==
    IF old_rv \notin DOMAIN rv
    THEN [err |-> TRUE, rv |-> rv, ov |-> ov]
    ELSE LET old_value == rv[old_rv]
             rv1 == Pop(rv, old_rv)
             key == IF new_rv = NoneV THEN old_rv ELSE new_rv
         IN IF old_value \notin DOMAIN ov
            THEN [err |-> TRUE, rv |-> rv1, ov |-> ov]
            ELSE [err |-> FALSE,
                  rv  |-> Put(rv1, key, new_value),
                  ov  |-> Put(Pop(ov, old_value), new_value, new_value)]

\* update_rv_maps that takes an old_rv it does not know for a new binding
update_rv_maps_insert(rv, ov, old_rv, new_value, new_rv) ==
    IF old_rv \notin DOMAIN rv
    THEN [err |-> FALSE,
          rv  |-> Put(rv, IF new_rv = NoneV THEN old_rv ELSE new_rv, new_value),
          ov  |-> Put(ov, new_value, new_value)]
    ELSE LET old_value == rv[old_rv]
             rv1 == Pop(rv, old_rv)
             key == IF new_rv = NoneV THEN old_rv ELSE new_rv
         IN IF old_value \notin DOMAIN ov
            THEN [err |-> TRUE, rv |-> rv1, ov |-> ov]
            ELSE [err |-> FALSE,
                  rv  |-> Put(rv1, key, new_value),
                  ov  |-> Put(Pop(ov, old_value), new_value, ov[old_value])]

\* update_rv_maps: the result maps, and whether a KeyError was raised.
\* The first pop has already happened when the second one raises.
update_rv_maps(rv, ov, old_rv, new_value, new_rv) ==
    IF old_rv \notin DOMAIN rv
    THEN [err |-> TRUE, rv |-> rv, ov |-> ov]
    ELSE LET old_value == rv[old_rv]
             rv1 == Pop(rv, old_rv)
             key == IF new_rv = NoneV THEN old_rv ELSE new_rv
         IN IF old_value \notin DOMAIN ov
            THEN [err |-> TRUE, rv |-> rv1, ov |-> ov]
            ELSE [err |-> FALSE,
                  rv  |-> Put(rv1, key, new_value),
                  ov  |-> Put(Pop(ov, old_value), new_value, ov[old_value])]

\* on_change_input that binds new_r without popping r
on_change_input_nopop(rv, r, new_r) ==
    IF r \in DOMAIN rv THEN Put(rv, new_r, rv[r]) ELSE rv

\* on_change_input that transfers a binding in either direction
on_change_input_either(rv, r, new_r) ==
    IF r \in DOMAIN rv THEN Put(Pop(rv, r), new_r, rv[r])
    ELSE IF new_r \in DOMAIN rv THEN Put(Pop(rv, new_r), r, rv[new_r])
    ELSE rv

\* on_change_input: rv_values after the notification (r, new_r)
on_change_input(rv, r, new_r) ==
    IF r \in DOMAIN rv THEN Put(Pop(rv, r), new_r, rv[r]) ELSE rv

(***************************************************************************)
(* The graph substrate: Variables, their owners, FunctionGraph.replace     *)
(***************************************************************************)
Node(op, ins, shp, nd, idx) ==
    [op |-> op, ins |-> ins, shp |-> shp, nd |-> nd, idx |-> idx]

\* len(node.outputs): a node has one output unless its record says
\* otherwise; a Variable number names the first output of its node
NOutputs(node) == IF "nout" \in DOMAIN node THEN node.nout ELSE 1

\* isinstance(op, MeasurableVariable): RandomVariable and DiracDelta
Measurable(op) == op \in {"RV", "DD"}

RECURSIVE Ancestors(_, _, _)
Ancestors(G, frontier, seen) ==
    IF frontier \subseteq seen THEN seen
    ELSE Ancestors(G, UNION {Range(G[v].ins) : v \in frontier}, seen \cup frontier)

\* fgraph.variables: everything the outputs depend on
Variables(G, outs) == Ancestors(G, Range(outs), {})

\* fgraph.apply_nodes, each named by its output Variable
ApplyNodes(G, outs) == {v \in Variables(G, outs) : G[v].op # "Input"}

\* fgraph.clients[r]: (node, i) with node.inputs[i] is r, and ("output", i)
Clients(G, outs, r) ==
    {<<c, i>> \in ApplyNodes(G, outs) \X (1..2) :
        i \in DOMAIN G[c].ins /\ G[c].ins[i] = r}
    \cup {<<NoneV, i>> : i \in {j \in DOMAIN outs : outs[j] = r}}

Subst(s, r, new_r) == [i \in DOMAIN s |-> IF s[i] = r THEN new_r ELSE s[i]]

\* FunctionGraph.replace(r, new_r): every client of r now reads new_r
ReplaceNodes(G, outs, r, new_r) ==
    LET live == ApplyNodes(G, outs)
    IN [v \in DOMAIN G |->
            IF v \in live THEN [G[v] EXCEPT !.ins = Subst(@, r, new_r)] ELSE G[v]]

\* FunctionGraph.replace that drops the output slots that held r
ReplaceOutputs_drop(outs, r, new_r) == SelectSeq(outs, LAMBDA x : x # r)

\* FunctionGraph.replace that leaves fgraph.outputs as they were
ReplaceOutputs_keep(outs, r, new_r) == outs

ReplaceOutputs(outs, r, new_r) == Subst(outs, r, new_r)

\* The most clients one replaced Variable is notified for
MaxClients == 3

\* execute_callbacks("on_change_input", ...): once per client of r
RECURSIVE Notify(_, _, _, _)
Notify(rv, r, new_r, k) ==
    IF k = 0 THEN rv ELSE Notify(on_change_input(rv, r, new_r), r, new_r, k - 1)

RECURSIVE Depth(_, _)
Depth(G, v) ==
    IF G[v].ins = <<>> THEN 0
    ELSE LET ds == {Depth(G, x) : x \in Range(G[v].ins)}
         IN 1 + (CHOOSE d \in ds : \A e \in ds : e <= d)

\* The Variables of S, those nearest the outputs first
RECURSIVE ByDepth(_, _)
ByDepth(dep, S) ==
    IF S = {} THEN <<>>
    ELSE LET m == CHOOSE v \in S : \A w \in S \ {v} :
                    dep[v] > dep[w] \/ (dep[v] = dep[w] /\ v > w)
         IN <<m>> \o ByDepth(dep, S \ {m})

\* The deque of one sweep in the order it is popped: io_toposort read
\* from its right end
SweepOrder(G, S) == ByDepth([v \in S |-> Depth(G, v)], S)

(***************************************************************************)
(* The rewrite rules.  Each returns None, or the replacement of the        *)
(* node's output together with the store holding the nodes it made and     *)
(* the tracker maps as the rule left them, or raises.                      *)
(***************************************************************************)
None(G, rv, ov) == [kind |-> "none", G |-> G, out |-> NoneV, rv |-> rv, ov |-> ov]
Repl(G, out, rv, ov) == [kind |-> "repl", G |-> G, out |-> out, rv |-> rv, ov |-> ov]
Raise(G, rv, ov) == [kind |-> "raise", G |-> G, out |-> NoneV, rv |-> rv, ov |-> ov]

\* local_lift_DiracDelta that moves the binding of the node itself
local_lift_DiracDelta_rebind(G, outs, rv, ov, n) ==
    LET node == G[n] IN
    IF node.op = "Elemwise" /\ Len(node.ins) # 1 THEN None(G, rv, ov)
    ELSE LET dd_inp == node.ins[1] IN
         IF G[dd_inp].op # "DD" THEN None(G, rv, ov)
         ELSE LET dd_val == G[dd_inp].ins[1]
                  new_value_node == [node EXCEPT !.ins = <<dd_val>> \o Tail(node.ins)]
                  G1 == Append(G, new_value_node)
                  new_node == [G[dd_inp] EXCEPT !.ins = <<Len(G1)>>]
                  G2 == Append(G1, new_node)
              IN Repl(G2, Len(G2), on_change_input(rv, n, Len(G2)), ov)

\* local_lift_DiracDelta that makes the new node from the wrapped value
\* alone, without the other inputs of the node
local_lift_DiracDelta_dropins(G, outs, rv, ov, n) ==
    LET node == G[n] IN
    IF NOutputs(node) > 1 THEN None(G, rv, ov)
    ELSE IF node.op = "Elemwise" /\ Len(node.ins) # 1 THEN None(G, rv, ov)
    ELSE LET dd_inp == node.ins[1] IN
         IF G[dd_inp].op # "DD" THEN None(G, rv, ov)
         ELSE LET dd_val == G[dd_inp].ins[1]
                  new_value_node == [node EXCEPT !.ins = <<dd_val>>]
                  G1 == Append(G, new_value_node)
                  new_node == [G[dd_inp] EXCEPT !.ins = <<Len(G1)>>]
                  G2 == Append(G1, new_node)
              IN Repl(G2, Len(G2), rv, ov)

\* local_lift_DiracDelta without the test on the number of outputs
local_lift_DiracDelta_anyout(G, outs, rv, ov, n) ==
    LET node == G[n] IN
    IF node.op = "Elemwise" /\ Len(node.ins) # 1 THEN None(G, rv, ov)
    ELSE LET dd_inp == node.ins[1] IN
         IF G[dd_inp].op # "DD" THEN None(G, rv, ov)
         ELSE LET dd_val == G[dd_inp].ins[1]
                  new_value_node == [node EXCEPT !.ins = <<dd_val>> \o Tail(node.ins)]
                  G1 == Append(G, new_value_node)
                  new_node == [G[dd_inp] EXCEPT !.ins = <<Len(G1)>>]
                  G2 == Append(G1, new_node)
              IN Repl(G2, Len(G2), rv, ov)

\* local_lift_DiracDelta
local_lift_DiracDelta(G, outs, rv, ov, n) ==
    LET node == G[n] IN
    IF NOutputs(node) > 1 THEN None(G, rv, ov)
    ELSE IF node.op = "Elemwise" /\ Len(node.ins) # 1 THEN None(G, rv, ov)
    ELSE LET dd_inp == node.ins[1] IN
         IF G[dd_inp].op # "DD" THEN None(G, rv, ov)
         ELSE LET dd_val == G[dd_inp].ins[1]
                  new_value_node == [node EXCEPT !.ins = <<dd_val>> \o Tail(node.ins)]
                  G1 == Append(G, new_value_node)
                  new_node == [G[dd_inp] EXCEPT !.ins = <<Len(G1)>>]
                  G2 == Append(G1, new_node)
              IN Repl(G2, Len(G2), rv, ov)

\* local_remove_DiracDelta that returns what is under the wrapped value
\* when that has an input
local_remove_DiracDelta_deep(G, outs, rv, ov, n) ==
    LET dd_val == G[n].ins[1]
    IN IF G[dd_val].ins = <<>> THEN Repl(G, dd_val, rv, ov)
       ELSE Repl(G, G[dd_val].ins[1], rv, ov)

\* local_remove_DiracDelta
local_remove_DiracDelta(G, outs, rv, ov, n) ==
    LET dd_val == G[n].ins[1] IN Repl(G, dd_val, rv, ov)

\* What a value Variable evaluates to, an array over 0..VecLen-1 whose
\* element <<v, j>> stands for element j of Variable v: a write node holds
\* its data at the written positions and what it writes into elsewhere
RECURSIVE Eval(_, _)
Eval(G, v) ==
    IF G[v].op = "IncSub"
    THEN LET into == Eval(G, G[v].ins[1])
             idx == G[v].idx
         IN [i \in 0..(VecLen - 1) |->
                IF \E j \in DOMAIN idx : idx[j] = i
                THEN <<G[v].ins[2], (CHOOSE j \in DOMAIN idx : idx[j] = i) - 1>>
                ELSE into[i]]
    ELSE [i \in 0..(VecLen - 1) |-> <<v, i>>]

\* set_subtensor with the value and the data exchanged
set_subtensor_swapped(value_var, idx, data) ==
    Node("IncSub", <<data, value_var>>, 0, 0, idx)

\* at.set_subtensor(value_var[idx], data)
set_subtensor(value_var, idx, data) == Node("IncSub", <<value_var, data>>, 0, 0, idx)

\* incsubtensor_rv_replace without the test that the base is measurable
incsubtensor_rv_replace_anybase(G, outs, rv, ov, n) ==
    LET rv_var == n
        base_rv_var == G[n].ins[1]
    IN IF rv_var \notin DOMAIN rv THEN None(G, rv, ov)
       ELSE IF base_rv_var \in DOMAIN rv THEN None(G, rv, ov)
       ELSE LET G1 == Append(G, set_subtensor(rv[rv_var], G[n].idx, G[n].ins[2]))
                u == update_rv_maps(rv, ov, rv_var, Len(G1), base_rv_var)
            IN IF u.err THEN Raise(G1, u.rv, u.ov)
               ELSE Repl(G1, base_rv_var, u.rv, u.ov)

\* incsubtensor_rv_replace that returns the base without update_rv_maps
incsubtensor_rv_replace_noupdate(G, outs, rv, ov, n) ==
    LET rv_var == n
        base_rv_var == G[n].ins[1]
    IN IF rv_var \notin DOMAIN rv THEN None(G, rv, ov)
       ELSE IF ~ (/\ G[base_rv_var].op # "Input"
                  /\ Measurable(G[base_rv_var].op)
                  /\ base_rv_var \notin DOMAIN rv)
       THEN None(G, rv, ov)
       ELSE Repl(Append(G, set_subtensor(rv[rv_var], G[n].idx, G[n].ins[2])),
                 base_rv_var, rv, ov)

\* incsubtensor_rv_replace without the test that the node is a key
incsubtensor_rv_replace_unchecked(G, outs, rv, ov, n) ==
    LET rv_var == n
        base_rv_var == G[n].ins[1]
    IN IF ~ (/\ G[base_rv_var].op # "Input"
             /\ Measurable(G[base_rv_var].op)
             /\ base_rv_var \notin DOMAIN rv)
       THEN None(G, rv, ov)
       ELSE LET G1 == Append(G, set_subtensor(NoneV, G[n].idx, G[n].ins[2]))
                u == update_rv_maps(rv, ov, rv_var, Len(G1), base_rv_var)
            IN IF u.err THEN Raise(G1, u.rv, u.ov)
               ELSE Repl(G1, base_rv_var, u.rv, u.ov)

\* incsubtensor_rv_replace without the test that the base is no key
incsubtensor_rv_replace_keyedbase(G, outs, rv, ov, n) ==
    LET rv_var == n
        base_rv_var == G[n].ins[1]
    IN IF rv_var \notin DOMAIN rv THEN None(G, rv, ov)
       ELSE IF ~ (/\ G[base_rv_var].op # "Input"
                  /\ Measurable(G[base_rv_var].op))
       THEN None(G, rv, ov)
       ELSE LET data == G[n].ins[2]
                idx == G[n].idx
                value_var == rv[rv_var]
                G1 == Append(G, set_subtensor(value_var, idx, data))
                new_value_var == Len(G1)
                u == update_rv_maps(rv, ov, rv_var, new_value_var, base_rv_var)
            IN IF u.err THEN Raise(G1, u.rv, u.ov)
               ELSE Repl(G1, base_rv_var, u.rv, u.ov)

\* incsubtensor_rv_replace (the tracker is attached)
incsubtensor_rv_replace(G, outs, rv, ov, n) ==
    LET rv_var == n
        base_rv_var == G[n].ins[1]
    IN IF rv_var \notin DOMAIN rv THEN None(G, rv, ov)
       ELSE IF ~ (/\ G[base_rv_var].op # "Input"
                  /\ Measurable(G[base_rv_var].op)
                  /\ base_rv_var \notin DOMAIN rv)
       THEN None(G, rv, ov)
       ELSE LET data == G[n].ins[2]
                idx == G[n].idx
                value_var == rv[rv_var]
                G1 == Append(G, set_subtensor(value_var, idx, data))
                new_value_var == Len(G1)
                u == update_rv_maps(rv, ov, rv_var, new_value_var, base_rv_var)
            IN IF u.err THEN Raise(G1, u.rv, u.ov)
               ELSE Repl(G1, base_rv_var, u.rv, u.ov)

\* incsubtensor_rv_replace that does not look for the tracker first
incsubtensor_rv_replace_in_unguarded(attr, G, outs, rv, ov, n) ==
    incsubtensor_rv_replace(G, outs, rv, ov, n)

\* incsubtensor_rv_replace on a graph whose preserve_rv_mappings is attr:
\* None when the attribute is not set
incsubtensor_rv_replace_in(attr, G, outs, rv, ov, n) ==
    IF attr = "none" THEN None(G, rv, ov)
    ELSE incsubtensor_rv_replace(G, outs, rv, ov, n)

\* op.make_node over every distribution parameter, then the RandomVariable
\* re-made over the new parameters
LiftThroughRV(G, rv_var, wrap) ==
    LET params == G[rv_var].ins
        k == Len(params)
        G1 == G \o [i \in 1..k |-> [wrap EXCEPT !.ins = <<params[i]>>]]
        new_rv == [G[rv_var] EXCEPT !.ins = [i \in 1..k |-> Len(G) + i],
                                    !.nd = Max(@, wrap.shp)]
    IN Append(G1, new_rv)

\* naive_bcast_rv_lift without the shortcut for the empty shape
naive_bcast_rv_lift_always(G, outs, rv, ov, n) ==
    LET rv_var == G[n].ins[1] IN
    IF ~ (G[n].op = "Bcast" /\ G[rv_var].op = "RV") THEN None(G, rv, ov)
    ELSE IF rv_var \in DOMAIN rv THEN None(G, rv, ov)
    ELSE LET G1 == LiftThroughRV(G, rv_var, G[n]) IN Repl(G1, Len(G1), rv, ov)

\* naive_bcast_rv_lift that tests the shape before it tests the binding
naive_bcast_rv_lift_late(G, outs, rv, ov, n) ==
    LET rv_var == G[n].ins[1] IN
    IF G[rv_var].op # "RV" THEN None(G, rv, ov)
    ELSE IF G[n].shp = 0
    THEN (IF G[rv_var].nd # 0 THEN Raise(G, rv, ov) ELSE Repl(G, rv_var, rv, ov))
    ELSE IF rv_var \in DOMAIN rv THEN None(G, rv, ov)
    ELSE LET G1 == LiftThroughRV(G, rv_var, G[n]) IN Repl(G1, Len(G1), rv, ov)

\* naive_bcast_rv_lift (fgraph has no dont_touch_vars)
naive_bcast_rv_lift(G, outs, rv, ov, n) ==
    LET rv_var == G[n].ins[1] IN
    IF ~ (G[n].op = "Bcast" /\ G[rv_var].op = "RV") THEN None(G, rv, ov)
    ELSE IF rv_var \in DOMAIN rv THEN None(G, rv, ov)
    ELSE IF G[n].shp = 0
    THEN (IF G[rv_var].nd # 0 THEN Raise(G, rv, ov) ELSE Repl(G, rv_var, rv, ov))
    ELSE LET G1 == LiftThroughRV(G, rv_var, G[n]) IN Repl(G1, Len(G1), rv, ov)

\* local_dimshuffle_rv_lift and local_subtensor_rv_lift: lift the node
\* through a RandomVariable nothing else in the graph uses
local_rv_lift(G, outs, rv, ov, n) ==
    LET rv_var == G[n].ins[1] IN
    IF G[rv_var].op # "RV" THEN None(G, rv, ov)
    ELSE IF Cardinality(Clients(G, outs, rv_var)) # 1 THEN None(G, rv, ov)
    ELSE LET G1 == LiftThroughRV(G, rv_var, G[n]) IN Repl(G1, Len(G1), rv, ov)

(***************************************************************************)
(* logprob_rewrites_db: pre-canonicalize, measurable_ir_rewrites,          *)
(* post-canonicalize.  Every stage is an equilibrium pass over the rules   *)
(* registered for it.                                                      *)
(***************************************************************************)
Stages == {"pre", "ir", "post"}

\* The "useless" pass of Aesara, where register_useless puts
\* local_remove_DiracDelta, run to equilibrium and then run once more
RemovalRuns == {"useless", "again"}

\* The position each stage is registered at: pre-canonicalize and
\* measurable_ir_rewrites at -10, post-canonicalize at 10
Position == [pre |-> -10, ir |-> -10, post |-> 10]

\* The place of the name each stage is registered under among the three
\* names, as strings compare: "measurable_ir_rewrites" <
\* "post-canonicalize" < "pre-canonicalize"
NameRank == [ir |-> 1, post |-> 2, pre |-> 3]

\* The key SequenceDB.query sorts the stages by is (position, name)
Before(s, t) ==
    \/ Position[s] < Position[t]
    \/ Position[s] = Position[t] /\ NameRank[s] < NameRank[t]

\* The stages in the order logprob_rewrites_db.query gives them: by
\* position, and the two registered at -10 by name
StageOrder ==
    CHOOSE s \in [1..3 -> Stages] : \A i \in 1..2 : Before(s[i], s[i + 1])

FirstStage == StageOrder[1]

\* The place of a stage in that order
PlaceOf(stage) == CHOOSE i \in DOMAIN StageOrder : StageOrder[i] = stage

NextStage(stage) ==
    IF stage \notin Stages THEN "done"
    ELSE IF PlaceOf(stage) = Len(StageOrder) THEN "done"
    ELSE StageOrder[PlaceOf(stage) + 1]

\* RuleOf with DimShuffle left out of what local_lift_DiracDelta tracks
RuleOf_noDimShuffle(stage, op) ==
    IF stage \in {"pre", "post"}
    THEN (IF op \in {"Elemwise", "Bcast", "Subtensor"}
          THEN "local_lift_DiracDelta" ELSE "none")
    ELSE IF stage = "ir"
    THEN (CASE op = "DimShuffle" -> "dimshuffle_lift"
            [] op = "Subtensor" -> "subtensor_lift"
            [] op = "Bcast" -> "broadcast_to_lift"
            [] op = "IncSub" -> "incsubtensor_lift"
            [] OTHER -> "none")
    ELSE IF stage \in RemovalRuns
    THEN (IF op = "DD" THEN "local_remove_DiracDelta" ELSE "none")
    ELSE "none"

\* The rule a stage tries on a node with this Op: the Ops each rule tracks.
\* No stage registers two rules for one Op.
RuleOf(stage, op) ==
    IF stage \in {"pre", "post"}
    THEN (IF op \in {"Elemwise", "Bcast", "DimShuffle", "Subtensor"}
          THEN "local_lift_DiracDelta" ELSE "none")
    ELSE IF stage = "ir"
    THEN (CASE op = "DimShuffle" -> "dimshuffle_lift"
            [] op = "Subtensor" -> "subtensor_lift"
            [] op = "Bcast" -> "broadcast_to_lift"
            [] op = "IncSub" -> "incsubtensor_lift"
            [] OTHER -> "none")
    ELSE IF stage \in RemovalRuns
    THEN (IF op = "DD" THEN "local_remove_DiracDelta" ELSE "none")
    ELSE "none"

\* lopt.transform(fgraph, node)
Transform(name, G, outs, rv, ov, n) ==
    CASE name = "local_lift_DiracDelta" -> local_lift_DiracDelta(G, outs, rv, ov, n)
      [] name = "local_remove_DiracDelta" -> local_remove_DiracDelta(G, outs, rv, ov, n)
      [] name = "dimshuffle_lift" -> local_rv_lift(G, outs, rv, ov, n)
      [] name = "subtensor_lift" -> local_rv_lift(G, outs, rv, ov, n)
      [] name = "broadcast_to_lift" -> naive_bcast_rv_lift(G, outs, rv, ov, n)
      [] name = "incsubtensor_lift" -> incsubtensor_rv_replace(G, outs, rv, ov, n)
      [] OTHER -> None(G, rv, ov)

\* process_node on node n of the graph
ResultAt(stage, G, outs, rv, ov, n) ==
    Transform(RuleOf(stage, G[n].op), G, outs, rv, ov, n)

\* The deque once the nodes at its head that have left the graph, or for
\* which process_node returns False, have been popped: such a visit
\* changes nothing but the deque
RECURSIVE AdvanceIn(_, _, _, _, _, _, _)
AdvanceIn(live, stage, G, outs, rv, ov, q) ==
    IF q = <<>> THEN q
    ELSE IF Head(q) \notin live
            \/ ResultAt(stage, G, outs, rv, ov, Head(q)).kind = "none"
    THEN AdvanceIn(live, stage, G, outs, rv, ov, Tail(q))
    ELSE q

Advance(stage, G, outs, rv, ov, q) ==
    AdvanceIn(ApplyNodes(G, outs), stage, G, outs, rv, ov, q)

\* The nodes popped on the way from deque q to its suffix q2
Popped(q, q2) == {q[i] : i \in 1..(Len(q) - Len(q2))}

HeadRule == RuleOf(pc, g[Head(queue)].op)

HeadResult == ResultAt(pc, g, outputs, rv_values, original_values, Head(queue))

\* A call: the rule or method, the Variable it is about, how it ended, the
\* Variable it returned or was given as replacement, and a value argument
Event(name, n, kind, out, val) ==
    [op |-> name, node |-> n, kind |-> kind, out |-> out, val |-> val]

\* No second call
NoRequest ==
    [id |-> 0, outputs |-> <<>>, rv_values |-> EmptyDict,
     original_values |-> EmptyDict, supplied |-> {}, pc |-> "none",
     queue |-> <<>>, visited |-> {}, fired |-> 0,
     sweeps |-> [st \in Stages |-> 0],
     last |-> Event("none", NoneV, "none", NoneV, NoneV),
     preserve_rv_mappings |-> "none", memo |-> EmptyDict]

\* process_node applies the replacement a rule returned: fgraph.replace
\* notifies the tracker once per client, and the importer queues the nodes
\* that entered the graph
VisitFire ==
    /\ pc \in Stages /\ queue # <<>>
    /\ \E n \in {Head(queue)} : \E res \in {HeadResult} :
       /\ res.kind = "repl"
       /\ \E k \in {Cardinality(Clients(res.G, outputs, n))} :
          \E G2 \in {ReplaceNodes(res.G, outputs, n, res.out)} :
          \E outs2 \in {ReplaceOutputs(outputs, n, res.out)} :
          \E rv2 \in {Notify(res.rv, n, res.out, k)} :
          \E imported \in {ApplyNodes(G2, outs2) \ ApplyNodes(g, outputs)} :
          \E q \in {SweepOrder(G2, imported) \o Tail(queue)} :
          \E q2 \in {Advance(pc, G2, outs2, rv2, res.ov, q)} :
              /\ Len(G2) <= MaxVars
              /\ g' = G2
              /\ outputs' = outs2
              /\ rv_values' = rv2
              /\ original_values' = res.ov
              /\ queue' = q2
              /\ visited' = visited \cup {n} \cup Popped(q, q2)
              /\ fired' = fired + 1
              /\ last' = Event(HeadRule, n, "repl", res.out, NoneV)
    /\ UNCHANGED <<adagrad, memoized, compound, other, caller, memo, preserve_rv_mappings, supplied, n0, pc, sweeps>>

\* VisitRaise with a failure_callback that drops the exception and goes on
\* with the sweep
VisitRaise_ignored ==
    /\ pc \in Stages /\ queue # <<>>
    /\ \E res \in {HeadResult} :
       \E q2 \in {Advance(pc, g, outputs, rv_values, original_values, Tail(queue))} :
       /\ res.kind = "raise"
       /\ queue' = q2
       /\ visited' = visited \cup Popped(queue, q2)
       /\ last' = Event(HeadRule, Head(queue), "raise", NoneV, NoneV)
    /\ UNCHANGED <<adagrad, memoized, compound, other, caller, memo, preserve_rv_mappings, g, outputs, rv_values, original_values, supplied, n0, pc,
                   fired, sweeps>>

\* The rule raises: NoCallbackEquilibriumDB has no failure_callback, so the
\* exception leaves construct_ir_fgraph
VisitRaise ==
    /\ pc \in Stages /\ queue # <<>>
    /\ \E res \in {HeadResult} :
       /\ res.kind = "raise"
       /\ pc' = "raised"
       /\ g' = res.G
       /\ rv_values' = res.rv
       /\ original_values' = res.ov
       /\ last' = Event(HeadRule, Head(queue), "raise", NoneV, NoneV)
    /\ UNCHANGED <<adagrad, memoized, compound, other, caller, memo, preserve_rv_mappings, outputs, supplied, n0, queue, visited, fired, sweeps>>

\* The deque of a new sweep of a stage
FreshQueue == SweepOrder(g, ApplyNodes(g, outputs))

\* NextSweep that sweeps again whether or not the sweep changed the graph
NextSweep_always ==
    /\ pc \in Stages /\ queue = <<>>
    /\ \E q \in {FreshQueue} :
       \E q2 \in {Advance(pc, g, outputs, rv_values, original_values, q)} :
          /\ queue' = q2
          /\ visited' = Popped(q, q2)
    /\ fired' = 0
    /\ sweeps' = [sweeps EXCEPT ![pc] = @ + 1]
    /\ UNCHANGED <<adagrad, memoized, compound, other, caller, memo, preserve_rv_mappings, g, outputs, rv_values, original_values, supplied, n0, pc, last>>

\* The sweep changed the graph: sweep again
NextSweep ==
    /\ pc \in Stages /\ queue = <<>>
    /\ fired > 0
    /\ \E q \in {FreshQueue} :
       \E q2 \in {Advance(pc, g, outputs, rv_values, original_values, q)} :
          /\ queue' = q2
          /\ visited' = Popped(q, q2)
    /\ fired' = 0
    /\ sweeps' = [sweeps EXCEPT ![pc] = @ + 1]
    /\ UNCHANGED <<adagrad, memoized, compound, other, caller, memo, preserve_rv_mappings, g, outputs, rv_values, original_values, supplied, n0, pc, last>>

\* EndStage that ends the stage after one sweep, changed or not
EndStage_early ==
    /\ pc \in Stages /\ queue = <<>>
    /\ \E stage \in {NextStage(pc)} :
       \E q \in {IF stage \in Stages THEN FreshQueue ELSE <<>>} :
       \E q2 \in {Advance(stage, g, outputs, rv_values, original_values, q)} :
          /\ pc' = stage
          /\ queue' = q2
          /\ visited' = Popped(q, q2)
          /\ sweeps' = IF stage \in Stages THEN [sweeps EXCEPT ![stage] = 1] ELSE sweeps
    /\ fired' = 0
    /\ UNCHANGED <<adagrad, memoized, compound, other, caller, memo, preserve_rv_mappings, g, outputs, rv_values, original_values, supplied, n0, last>>

\* EndStage that goes on only when the graph has an output
EndStage_nonempty ==
    /\ pc \in Stages /\ queue = <<>>
    /\ fired = 0
    /\ outputs # <<>>
    /\ \E stage \in {NextStage(pc)} :
       \E q \in {IF stage \in Stages THEN FreshQueue ELSE <<>>} :
       \E q2 \in {Advance(stage, g, outputs, rv_values, original_values, q)} :
          /\ pc' = stage
          /\ queue' = q2
          /\ visited' = Popped(q, q2)
          /\ sweeps' = IF stage \in Stages THEN [sweeps EXCEPT ![stage] = 1] ELSE sweeps
    /\ UNCHANGED <<adagrad, memoized, compound, other, caller, memo, preserve_rv_mappings, g, outputs, rv_values, original_values, supplied, n0, fired, last>>

\* The sweep changed nothing: the stage is over, the next one begins
EndStage ==
    /\ pc \in Stages /\ queue = <<>>
    /\ fired = 0
    /\ \E stage \in {NextStage(pc)} :
       \E q \in {IF stage \in Stages THEN FreshQueue ELSE <<>>} :
       \E q2 \in {Advance(stage, g, outputs, rv_values, original_values, q)} :
          /\ pc' = stage
          /\ queue' = q2
          /\ visited' = Popped(q, q2)
          /\ sweeps' = IF stage \in Stages THEN [sweeps EXCEPT ![stage] = 1] ELSE sweeps
    /\ UNCHANGED <<adagrad, memoized, compound, other, caller, memo, preserve_rv_mappings, g, outputs, rv_values, original_values, supplied, n0, fired, last>>

(***************************************************************************)
(* construct_ir_fgraph: the graphs and Binding Maps a caller can pass      *)
(***************************************************************************)
\* The index list of a caller's IncSubtensor node over base x
IdxFor(x) == IF x % 2 = 0 THEN <<0, 2>> ELSE <<1, 3>>

\* Owners a Variable can have when p Variables precede it.  The second
\* input of a binary Elemwise, and the data of an IncSubtensor, is
\* Variable 1.
Choices(p) ==
    {Node("Input", <<>>, 0, 0, <<>>)}
    \cup {Node("RV", ins, 0, nd, <<>>) :
            ins \in {<<>>} \cup {<<x>> : x \in 1..p}, nd \in 0..1}
    \cup {Node(op, <<x>>, 0, 0, <<>>) :
            op \in {"DD", "DimShuffle", "Subtensor", "Elemwise"}, x \in 1..p}
    \cup {Node("Elemwise", <<x, 1>>, 0, 0, <<>>) : x \in 1..p}
    \cup {Node("Bcast", <<x>>, shp, 0, <<>>) : x \in 1..p, shp \in 0..1}
    \cup {Node("IncSub", <<x, 1>>, 0, 0, IdxFor(x)) : x \in 1..p}

RECURSIVE Graphs(_)
Graphs(n) ==
    IF n = 0 THEN {<<>>}
    ELSE {Append(gr, c) : gr \in Graphs(n - 1), c \in Choices(n - 1)}

RECURSIVE SortedSeq(_)
SortedSeq(S) ==
    IF S = {} THEN <<>>
    ELSE LET m == CHOOSE x \in S : \A y \in S : x <= y
         IN <<m>> \o SortedSeq(S \ {m})

\* The Variables of gr that no node of gr reads
Sinks(gr) == {v \in DOMAIN gr : \A w \in DOMAIN gr : v \notin Range(gr[w].ins)}

\* The state when logprob_rewrites_db starts on the cloned graph: the graph
\* is what the keys depend on, there is one output per key, and every key
\* is bound to a value Variable of its own
Init ==
    \E n \in 0..MaxInit : \E gr \in Graphs(n) :
    \E extra \in SUBSET ((1..n) \ Sinks(gr)) :
    \E keys \in {Sinks(gr) \cup extra} :
    \E ks \in {SortedSeq(keys)} :
    \E store \in {gr \o [i \in 1..Len(ks) |-> Node("Input", <<>>, 0, 0, <<>>)]} :
    \E rv \in {[k \in keys |-> n + (CHOOSE i \in DOMAIN ks : ks[i] = k)]} :
    \E q \in {SweepOrder(store, ApplyNodes(store, ks))} :
    \E q2 \in {Advance(FirstStage, store, ks, rv, TrackerInit(rv), q)} :
        /\ g = store
        /\ outputs = ks
        /\ rv_values = rv
        /\ original_values = TrackerInit(rv)
        /\ supplied = keys
        /\ n0 = n
        /\ pc = FirstStage
        /\ queue = q2
        /\ visited = Popped(q, q2)
        /\ fired = 0
        /\ sweeps = [st \in Stages |-> IF st = FirstStage THEN 1 ELSE 0]
        /\ last = Event("none", NoneV, "none", NoneV, NoneV)
        /\ preserve_rv_mappings = on_attach("none", "rv_remapper").attr
        /\ caller = rv
        /\ other = NoRequest
        /\ compound = NoCompound
        /\ memoized = NoMemoize
        /\ adagrad = NoOptimizer
        /\ memo = [v \in DOMAIN store |-> v]

Next == VisitFire \/ VisitRaise \/ NextSweep \/ EndStage

Spec == Init /\ [][Next]_vars

(***************************************************************************)
(* The tracker on its own: any sequence of on_change_input notifications   *)
(* and update_rv_maps calls on a tracker built over any Binding Map        *)
(***************************************************************************)
TVars == 1..TrackVars
TValues == (TrackVars + 1)..(2 * TrackVars)

InitTracker ==
    \E keys \in SUBSET TVars : \E rv \in [keys -> TValues] :
        /\ rv_values = rv
        /\ original_values = TrackerInit(rv)
        /\ supplied = keys
        /\ g = <<>>
        /\ outputs = <<>>
        /\ n0 = 0
        /\ pc = "api"
        /\ queue = <<>>
        /\ visited = {}
        /\ fired = 0
        /\ sweeps = [st \in Stages |-> 0]
        /\ last = Event("none", NoneV, "none", NoneV, NoneV)
        /\ preserve_rv_mappings = "none"
        /\ caller = EmptyDict
        /\ other = NoRequest
        /\ compound = NoCompound
        /\ memoized = NoMemoize
        /\ adagrad = NoOptimizer
        /\ memo = EmptyDict

\* The trackers someone may attach to the graph: the one whose maps
\* rv_values and original_values are, and another one
Trackers == {"rv_remapper", "second"}

\* fgraph.attach_feature(tracker)
CallAttach ==
    /\ pc = "api"
    /\ \E t \in Trackers : \E u \in {on_attach(preserve_rv_mappings, t)} :
        /\ preserve_rv_mappings' = u.attr
        /\ last' = Event("on_attach", NoneV, IF u.err THEN "raise" ELSE "ok", NoneV, t)
    /\ UNCHANGED <<adagrad, memoized, compound, other, caller, memo, g, outputs, rv_values, original_values, supplied, n0, pc,
                   queue, visited, fired, sweeps>>

\* The graph reports to its tracker that a client of r now reads new_r
CallOnChangeInput ==
    /\ pc = "api"
    /\ preserve_rv_mappings = "rv_remapper"
    /\ \E r \in TVars : \E new_r \in TVars \ {r} :
        /\ rv_values' = on_change_input(rv_values, r, new_r)
        /\ last' = Event("on_change_input", r,
                         IF r \in DOMAIN rv_values THEN "transfer" ELSE "noop",
                         new_r, NoneV)
    /\ UNCHANGED <<adagrad, memoized, compound, other, caller, memo, preserve_rv_mappings, g, outputs, original_values, supplied, n0, pc, queue,
                   visited, fired, sweeps>>

\* update_rv_maps(old_rv, new_value, new_rv), new_rv possibly None
CallUpdateRvMaps ==
    /\ pc = "api"
    /\ \E old_rv \in TVars : \E new_value \in TValues :
       \E new_rv \in TVars \cup {NoneV} :
       \E u \in {update_rv_maps(rv_values, original_values, old_rv, new_value, new_rv)} :
        /\ rv_values' = u.rv
        /\ original_values' = u.ov
        /\ last' = Event("update_rv_maps", old_rv,
                         IF u.err THEN "raise" ELSE "ok", new_rv, new_value)
    /\ UNCHANGED <<adagrad, memoized, compound, other, caller, memo, preserve_rv_mappings, g, outputs, supplied, n0, pc, queue, visited, fired, sweeps>>

NextTracker == CallAttach \/ CallOnChangeInput \/ CallUpdateRvMaps

SpecTracker == InitTracker /\ [][NextTracker]_vars

(***************************************************************************)
(* construct_ir_fgraph up to the rewrites: the caller's graph and dict,    *)
(* and the clone FunctionGraph(clone=True, memo=memo, copy_orphans=False,  *)
(* copy_inputs=False) makes of them                                        *)
(***************************************************************************)
\* a memo that pins nothing
InitialMemo_empty(rv) == EmptyDict

\* memo = {v: v for v in rv_values.values()}
InitialMemo(rv) == [v \in Range(rv) |-> v]

\* dict.setdefault
SetDefault(d, k, v) == IF k \in DOMAIN d THEN d ELSE Put(d, k, v)

\* The clone of the Variables in order (a topological order): a Variable
\* without owner is mapped to itself, an apply node is copied over the
\* images of its inputs, and setdefault keeps what memo already holds
RECURSIVE clone_get_equiv(_, _, _)
clone_get_equiv(G, order, mm) ==
    IF order = <<>> THEN [g |-> G, memo |-> mm]
    ELSE \* bind once
         LET v == Head(order)
         IN IF G[v].op = "Input"
            THEN clone_get_equiv(G, Tail(order), SetDefault(mm, v, v))
            ELSE LET new_apply ==
                        [G[v] EXCEPT !.ins = [i \in DOMAIN @ |-> mm[@[i]]]]
                 IN clone_get_equiv(Append(G, new_apply), Tail(order),
                                    SetDefault(mm, v, Len(G) + 1))

\* The Variables the outputs depend on, each after the ones it is
\* computed from
io_toposort(G, outs) ==
    LET order == SweepOrder(G, Variables(G, outs))
    IN [i \in DOMAIN order |-> order[Len(order) + 1 - i]]

\* The caller's state: a model graph, a dict from the Variables to measure
\* to value Variables, where a value is an input Variable of its own or
\* (for at most one key) the first Variable of the model graph
InitCaller ==
    \E n \in 1..MaxInit : \E gr \in Graphs(n) :
    \E extra \in SUBSET ((1..n) \ Sinks(gr)) :
    \E keys \in {Sinks(gr) \cup extra} :
    \E ks \in {SortedSeq(keys)} :
    \E store \in {gr \o [i \in 1..Len(ks) |-> Node("Input", <<>>, 0, 0, <<>>)]} :
    \E own \in {[k \in keys |-> n + (CHOOSE i \in DOMAIN ks : ks[i] = k)]} :
    \E rv \in {own} \cup {[own EXCEPT ![k] = 1] : k \in keys \ {1}} :
        /\ g = store
        /\ outputs = ks
        /\ rv_values = rv
        /\ original_values = EmptyDict
        /\ supplied = keys
        /\ n0 = n
        /\ pc = "caller"
        /\ queue = <<>>
        /\ visited = {}
        /\ fired = 0
        /\ sweeps = [st \in Stages |-> 0]
        /\ last = Event("none", NoneV, "none", NoneV, NoneV)
        /\ preserve_rv_mappings = "none"
        /\ caller = rv
        /\ other = NoRequest
        /\ compound = NoCompound
        /\ memoized = NoMemoize
        /\ adagrad = NoOptimizer
        /\ memo = EmptyDict

\* construct_ir_fgraph from its first line to attach_feature(rv_remapper)
CloneGraph ==
    /\ pc = "caller"
    /\ \E c \in {clone_get_equiv(g, io_toposort(g, outputs),
                                 InitialMemo(caller))} :
       \E rv \in {[nk \in {c.memo[k] : k \in DOMAIN caller} |->
                    caller[CHOOSE k \in DOMAIN caller : c.memo[k] = nk]]} :
        /\ g' = c.g
        /\ memo' = c.memo
        /\ outputs' = [i \in DOMAIN outputs |-> c.memo[outputs[i]]]
        /\ rv_values' = rv
        /\ original_values' = TrackerInit(rv)
        /\ supplied' = DOMAIN rv
        /\ preserve_rv_mappings' = on_attach(preserve_rv_mappings, "rv_remapper").attr
        /\ pc' = "cloned"
        /\ last' = Event("clone", NoneV, "ok", NoneV, NoneV)
    /\ UNCHANGED <<adagrad, memoized, compound, other, caller, n0, queue, visited, fired, sweeps>>

\* logprob_rewrites_db.query(...).optimize(fgraph) begins: the first sweep
\* of the first stage
StartRewrites ==
    /\ pc = "cloned"
    /\ \E q \in {FreshQueue} :
       \E q2 \in {Advance(FirstStage, g, outputs, rv_values, original_values, q)} :
          /\ queue' = q2
          /\ visited' = Popped(q, q2)
    /\ pc' = FirstStage
    /\ fired' = 0
    /\ sweeps' = [st \in Stages |-> IF st = FirstStage THEN 1 ELSE 0]
    /\ UNCHANGED <<adagrad, memoized, compound, other, caller, memo, preserve_rv_mappings, g, outputs, rv_values,
                   original_values, supplied, n0, last>>

NextClone == CloneGraph \/ StartRewrites

SpecClone == InitCaller /\ [][NextClone]_vars

(***************************************************************************)
(* Two calls of construct_ir_fgraph on the same rv_values dict, their      *)
(* steps interleaved.  The Variables and Apply nodes of both live in the   *)
(* one store g; everything construct_ir_fgraph creates per call is a       *)
(* field of the call.                                                      *)
(***************************************************************************)
\* Graphs in which every Variable after the first is computed from the
\* one before it alone, and the last is a RandomVariable
RECURSIVE Chains(_)
Chains(n) ==
    IF n <= 1 THEN Graphs(n)
    ELSE {Append(gr, c) : gr \in Chains(n - 1),
                          c \in {d \in Choices(n - 1) : d.ins = <<n - 1>>}}

ChainsToRV(n) == {gr \in Chains(n) : gr[n].op = "RV"}

\* The call that is running, as a record
Running(i) ==
    [id |-> i, outputs |-> outputs, rv_values |-> rv_values,
     original_values |-> original_values, supplied |-> supplied, pc |-> pc,
     queue |-> queue, visited |-> visited, fired |-> fired,
     sweeps |-> sweeps, last |-> last,
     preserve_rv_mappings |-> preserve_rv_mappings, memo |-> memo]

\* Two callers hold the same model graph and the same dict: the graphs of
\* up to MaxInit - 1 Variables with a value Variable of its own for every
\* key, and the chains of MaxInit + 1 Variables that end in the one key,
\* whose value is an input Variable of its own or the Variable the key is
\* computed from
InitTwo ==
    \E n \in (1..(MaxInit - 1)) \cup {MaxInit + 1} :
    \E gr \in IF n < MaxInit THEN Graphs(n) ELSE ChainsToRV(n) :
    \E extra \in IF n < MaxInit THEN SUBSET ((1..n) \ Sinks(gr)) ELSE {{}} :
    \E keys \in {Sinks(gr) \cup extra} :
    \E ks \in {SortedSeq(keys)} :
    \E store \in {gr \o [i \in 1..Len(ks) |-> Node("Input", <<>>, 0, 0, <<>>)]} :
    \E own \in {[k \in keys |-> n + (CHOOSE i \in DOMAIN ks : ks[i] = k)]} :
    \E rv \in {own} \cup (IF n < MaxInit THEN {} ELSE {[own EXCEPT ![n] = n - 1]}) :
        /\ g = store
        /\ outputs = ks
        /\ rv_values = rv
        /\ original_values = EmptyDict
        /\ supplied = keys
        /\ n0 = n
        /\ pc = "caller"
        /\ queue = <<>>
        /\ visited = {}
        /\ fired = 0
        /\ sweeps = [st \in Stages |-> 0]
        /\ last = Event("none", NoneV, "none", NoneV, NoneV)
        /\ preserve_rv_mappings = "none"
        /\ caller = rv
        /\ memo = EmptyDict
        /\ other = Running(2)
        /\ compound = NoCompound
        /\ memoized = NoMemoize
        /\ adagrad = NoOptimizer

\* The running call is suspended and the other one goes on
Switch ==
    /\ other' = Running(3 - other.id)
    /\ outputs' = other.outputs
    /\ rv_values' = other.rv_values
    /\ original_values' = other.original_values
    /\ supplied' = other.supplied
    /\ pc' = other.pc
    /\ queue' = other.queue
    /\ visited' = other.visited
    /\ fired' = other.fired
    /\ sweeps' = other.sweeps
    /\ last' = other.last
    /\ preserve_rv_mappings' = other.preserve_rv_mappings
    /\ memo' = other.memo
    /\ UNCHANGED <<adagrad, memoized, compound, g, caller, n0>>

NextTwo ==
    \/ CloneGraph \/ StartRewrites
    \/ VisitFire \/ VisitRaise \/ NextSweep \/ EndStage
    \/ Switch

SpecTwo == InitTwo /\ [][NextTwo]_vars

(***************************************************************************)
(* local_lift_DiracDelta called on a node of a graph, as the canonicalize  *)
(* passes call it; an Elemwise can there have more than one output         *)
(***************************************************************************)
\* An Elemwise with two outputs over the Variable before it
MultiOut(x) == [Node("Elemwise", <<x>>, 0, 0, <<>>) EXCEPT !.ins = <<x>>] @@ [nout |-> 2]

\* A Subtensor of x whose index is an input of the node, Variable 1
Indexed(x) == Node("Subtensor", <<x, 1>>, 0, 0, <<>>)

\* Graphs as a caller passes them, where also an Elemwise with two outputs
\* and a Subtensor with an index input can be computed from any Variable
RECURSIVE GraphsMulti(_)
GraphsMulti(n) ==
    IF n = 0 THEN {<<>>}
    ELSE {Append(gr, c) : gr \in GraphsMulti(n - 1),
                          c \in Choices(n - 1)
                                \cup {MultiOut(x) : x \in 1..(n - 1)}
                                \cup {Indexed(x) : x \in 1..(n - 1)}}

InitLift ==
    \E n \in 1..MaxInit : \E gr \in GraphsMulti(n) :
    \E ks \in {SortedSeq(Sinks(gr))} :
        /\ g = gr
        /\ outputs = ks
        /\ rv_values = EmptyDict
        /\ original_values = EmptyDict
        /\ supplied = {}
        /\ n0 = n
        /\ pc = "rule"
        /\ queue = <<>>
        /\ visited = {}
        /\ fired = 0
        /\ sweeps = [st \in Stages |-> 0]
        /\ last = Event("none", NoneV, "none", NoneV, NoneV)
        /\ preserve_rv_mappings = "none"
        /\ caller = EmptyDict
        /\ memo = EmptyDict
        /\ other = NoRequest
        /\ compound = NoCompound
        /\ memoized = NoMemoize
        /\ adagrad = NoOptimizer

\* local_lift_DiracDelta(fgraph, node) on a node whose Op it tracks
ApplyLift ==
    /\ pc = "rule"
    /\ \E n \in {m \in ApplyNodes(g, outputs) :
                    RuleOf("pre", g[m].op) = "local_lift_DiracDelta"} :
       \E res \in {local_lift_DiracDelta(g, outputs, rv_values, original_values, n)} :
        /\ g' = res.G
        /\ rv_values' = res.rv
        /\ original_values' = res.ov
        /\ last' = Event("local_lift_DiracDelta", n, res.kind, res.out, NoneV)
        /\ pc' = "applied"
    /\ UNCHANGED <<adagrad, memoized, compound, other, caller, memo, preserve_rv_mappings, outputs, supplied, n0,
                   queue, visited, fired, sweeps>>

NextLift == ApplyLift

SpecLift == InitLift /\ [][NextLift]_vars

(***************************************************************************)
(* local_remove_DiracDelta run to equilibrium on a working graph, and      *)
(* then run again                                                          *)
(***************************************************************************)
InitRemove ==
    \E n \in 0..MaxInit : \E gr \in Graphs(n) :
    \E extra \in SUBSET ((1..n) \ Sinks(gr)) :
    \E keys \in {Sinks(gr) \cup extra} :
    \E ks \in {SortedSeq(keys)} :
    \E store \in {gr \o [i \in 1..Len(ks) |-> Node("Input", <<>>, 0, 0, <<>>)]} :
    \E rv \in {[k \in keys |-> n + (CHOOSE i \in DOMAIN ks : ks[i] = k)]} :
    \E q \in {SweepOrder(store, ApplyNodes(store, ks))} :
    \E q2 \in {Advance("useless", store, ks, rv, TrackerInit(rv), q)} :
        /\ g = store
        /\ outputs = ks
        /\ rv_values = rv
        /\ original_values = TrackerInit(rv)
        /\ supplied = keys
        /\ n0 = n
        /\ pc = "useless"
        /\ queue = q2
        /\ visited = Popped(q, q2)
        /\ fired = 0
        /\ sweeps = [st \in Stages |-> 0]
        /\ last = Event("none", NoneV, "none", NoneV, NoneV)
        /\ preserve_rv_mappings = on_attach("none", "rv_remapper").attr
        /\ caller = rv
        /\ memo = [v \in DOMAIN store |-> v]
        /\ other = NoRequest
        /\ compound = NoCompound
        /\ memoized = NoMemoize
        /\ adagrad = NoOptimizer

\* process_node replaces the DiracDelta at the head of the deque by the
\* Variable it wraps
RemoveFire ==
    /\ pc \in RemovalRuns /\ queue # <<>>
    /\ \E n \in {Head(queue)} : \E res \in {HeadResult} :
       /\ res.kind = "repl"
       /\ \E k \in {Cardinality(Clients(res.G, outputs, n))} :
          \E G2 \in {ReplaceNodes(res.G, outputs, n, res.out)} :
          \E outs2 \in {ReplaceOutputs(outputs, n, res.out)} :
          \E rv2 \in {Notify(res.rv, n, res.out, k)} :
          \E imported \in {ApplyNodes(G2, outs2) \ ApplyNodes(g, outputs)} :
          \E q \in {SweepOrder(G2, imported) \o Tail(queue)} :
          \E q2 \in {Advance(pc, G2, outs2, rv2, res.ov, q)} :
              /\ g' = G2
              /\ outputs' = outs2
              /\ rv_values' = rv2
              /\ original_values' = res.ov
              /\ queue' = q2
              /\ visited' = visited \cup {n} \cup Popped(q, q2)
              /\ fired' = fired + 1
              /\ last' = Event(HeadRule, n, "repl", res.out, NoneV)
    /\ UNCHANGED <<adagrad, memoized, compound, other, caller, memo, preserve_rv_mappings, supplied, n0, pc, sweeps>>

\* The sweep replaced something: sweep again
RemoveSweep ==
    /\ pc \in RemovalRuns /\ queue = <<>>
    /\ fired > 0
    /\ \E q \in {FreshQueue} :
       \E q2 \in {Advance(pc, g, outputs, rv_values, original_values, q)} :
          /\ queue' = q2
          /\ visited' = Popped(q, q2)
    /\ fired' = 0
    /\ UNCHANGED <<adagrad, memoized, compound, other, caller, memo, preserve_rv_mappings, g, outputs, rv_values,
                   original_values, supplied, n0, pc, sweeps, last>>

\* RemoveEnd that ends the run after the first replacement
RemoveEnd_afterone ==
    /\ pc \in RemovalRuns
    /\ fired > 0 \/ queue = <<>>
    /\ \E run \in {IF pc = "useless" THEN "again" ELSE "done"} :
       \E q \in {IF run = "again" THEN FreshQueue ELSE <<>>} :
       \E q2 \in {Advance(run, g, outputs, rv_values, original_values, q)} :
          /\ pc' = run
          /\ queue' = q2
          /\ visited' = Popped(q, q2)
    /\ fired' = 0
    /\ UNCHANGED <<adagrad, memoized, compound, other, caller, memo, preserve_rv_mappings, g, outputs, rv_values,
                   original_values, supplied, n0, sweeps, last>>

\* The sweep replaced nothing: the run is at its fixpoint; after the first
\* run the pass is run again
RemoveEnd ==
    /\ pc \in RemovalRuns /\ queue = <<>>
    /\ fired = 0
    /\ \E run \in {IF pc = "useless" THEN "again" ELSE "done"} :
       \E q \in {IF run = "again" THEN FreshQueue ELSE <<>>} :
       \E q2 \in {Advance(run, g, outputs, rv_values, original_values, q)} :
          /\ pc' = run
          /\ queue' = q2
          /\ visited' = Popped(q, q2)
    /\ UNCHANGED <<adagrad, memoized, compound, other, caller, memo, preserve_rv_mappings, g, outputs, rv_values,
                   original_values, supplied, n0, fired, sweeps, last>>

NextRemove == RemoveFire \/ RemoveSweep \/ RemoveEnd

SpecRemove == InitRemove /\ [][NextRemove]_vars

(***************************************************************************)
(* construct_ir_fgraph on a lift chain: two Ops that local_lift_DiracDelta *)
(* tracks, one over the other, over a DiracDelta                           *)
(***************************************************************************)
\* The Ops with one input that local_lift_DiracDelta tracks, over x
Liftable(x) ==
    {c \in Choices(x) :
        c.ins = <<x>> /\ c.op \in {"Elemwise", "Bcast", "DimShuffle", "Subtensor"}}

\* The state when logprob_rewrites_db starts on a chain
\* op4(op3(DiracDelta(V))): the outer node is a key, and any of the others
InitChain ==
    \E n \in {4} : \E base \in Graphs(1) : \E c3 \in Liftable(2) : \E c4 \in Liftable(3) :
    \E gr \in {base \o <<Node("DD", <<1>>, 0, 0, <<>>), c3, c4>>} :
    \E extra \in SUBSET ((1..n) \ Sinks(gr)) :
    \E keys \in {Sinks(gr) \cup extra} :
    \E ks \in {SortedSeq(keys)} :
    \E store \in {gr \o [i \in 1..Len(ks) |-> Node("Input", <<>>, 0, 0, <<>>)]} :
    \E rv \in {[k \in keys |-> n + (CHOOSE i \in DOMAIN ks : ks[i] = k)]} :
    \E q \in {SweepOrder(store, ApplyNodes(store, ks))} :
    \E q2 \in {Advance(FirstStage, store, ks, rv, TrackerInit(rv), q)} :
        /\ g = store
        /\ outputs = ks
        /\ rv_values = rv
        /\ original_values = TrackerInit(rv)
        /\ supplied = keys
        /\ n0 = n
        /\ pc = FirstStage
        /\ queue = q2
        /\ visited = Popped(q, q2)
        /\ fired = 0
        /\ sweeps = [st \in Stages |-> IF st = FirstStage THEN 1 ELSE 0]
        /\ last = Event("none", NoneV, "none", NoneV, NoneV)
        /\ preserve_rv_mappings = on_attach("none", "rv_remapper").attr
        /\ caller = rv
        /\ memo = [v \in DOMAIN store |-> v]
        /\ other = NoRequest
        /\ compound = NoCompound
        /\ memoized = NoMemoize
        /\ adagrad = NoOptimizer

\* No rule raises on these chains: the lifting stage runs first, and while
\* the markers are not lifted none of its rules finds a RandomVariable
\* under its node
NextChain == VisitFire \/ NextSweep \/ EndStage

SpecChain == InitChain /\ [][NextChain]_vars

(***************************************************************************)
(* incsubtensor_rv_replace called on the nodes of a graph no tracker is    *)
(* attached to: a PreserveRVMappings was made over the caller's dict, but  *)
(* attach_feature was not called                                           *)
(***************************************************************************)
InitNoTracker ==
    \E n \in 0..MaxInit : \E gr \in Graphs(n) :
    \E extra \in SUBSET ((1..n) \ Sinks(gr)) :
    \E keys \in {Sinks(gr) \cup extra} :
    \E ks \in {SortedSeq(keys)} :
    \E store \in {gr \o [i \in 1..Len(ks) |-> Node("Input", <<>>, 0, 0, <<>>)]} :
    \E rv \in {[k \in keys |-> n + (CHOOSE i \in DOMAIN ks : ks[i] = k)]} :
        /\ g = store
        /\ outputs = ks
        /\ rv_values = rv
        /\ original_values = TrackerInit(rv)
        /\ supplied = keys
        /\ n0 = n
        /\ pc = "rule"
        /\ queue = <<>>
        /\ visited = {}
        /\ fired = 0
        /\ sweeps = [st \in Stages |-> 0]
        /\ last = Event("none", NoneV, "none", NoneV, NoneV)
        /\ preserve_rv_mappings = "none"
        /\ caller = rv
        /\ memo = [v \in DOMAIN store |-> v]
        /\ other = NoRequest
        /\ compound = NoCompound
        /\ memoized = NoMemoize
        /\ adagrad = NoOptimizer

\* incsubtensor_rv_replace(fgraph, node) on a node of the graph
ApplyIncSub ==
    /\ pc = "rule"
    /\ \E n \in {m \in ApplyNodes(g, outputs) : g[m].op = "IncSub"} :
       \E res \in {incsubtensor_rv_replace_in(preserve_rv_mappings, g, outputs,
                                              rv_values, original_values, n)} :
        /\ g' = res.G
        /\ rv_values' = res.rv
        /\ original_values' = res.ov
        /\ last' = Event("incsubtensor_lift", n, res.kind, res.out, NoneV)
        /\ visited' = visited \cup {n}
    /\ UNCHANGED <<adagrad, memoized, compound, other, caller, memo, preserve_rv_mappings, outputs, supplied, n0, pc,
                   queue, fired, sweeps>>

NextNoTracker == ApplyIncSub

SpecNoTracker == InitNoTracker /\ [][NextNoTracker]_vars

(***************************************************************************)
(* Two derivations of the same input, each on a graph of its own: the one  *)
(* that is not running is kept, with its graph, in other                   *)
(***************************************************************************)
\* The running derivation with its graph, as a record
RunningWith(i) == Running(i) @@ [g |-> g]

InitPair ==
    \E n \in 0..(MaxInit - 1) : \E gr \in Graphs(n) :
    \E extra \in SUBSET ((1..n) \ Sinks(gr)) :
    \E keys \in {Sinks(gr) \cup extra} :
    \E ks \in {SortedSeq(keys)} :
    \E store \in {gr \o [i \in 1..Len(ks) |-> Node("Input", <<>>, 0, 0, <<>>)]} :
    \E rv \in {[k \in keys |-> n + (CHOOSE i \in DOMAIN ks : ks[i] = k)]} :
    \E q \in {SweepOrder(store, ApplyNodes(store, ks))} :
    \E q2 \in {Advance(FirstStage, store, ks, rv, TrackerInit(rv), q)} :
        /\ g = store
        /\ outputs = ks
        /\ rv_values = rv
        /\ original_values = TrackerInit(rv)
        /\ supplied = keys
        /\ n0 = n
        /\ pc = FirstStage
        /\ queue = q2
        /\ visited = Popped(q, q2)
        /\ fired = 0
        /\ sweeps = [st \in Stages |-> IF st = FirstStage THEN 1 ELSE 0]
        /\ last = Event("none", NoneV, "none", NoneV, NoneV)
        /\ preserve_rv_mappings = on_attach("none", "rv_remapper").attr
        /\ caller = rv
        /\ memo = [v \in DOMAIN store |-> v]
        /\ other = RunningWith(2)
        /\ compound = NoCompound
        /\ memoized = NoMemoize
        /\ adagrad = NoOptimizer

\* The running derivation is suspended and the other one goes on, on its
\* own graph
SwitchPair ==
    /\ other' = RunningWith(3 - other.id)
    /\ g' = other.g
    /\ outputs' = other.outputs
    /\ rv_values' = other.rv_values
    /\ original_values' = other.original_values
    /\ supplied' = other.supplied
    /\ pc' = other.pc
    /\ queue' = other.queue
    /\ visited' = other.visited
    /\ fired' = other.fired
    /\ sweeps' = other.sweeps
    /\ last' = other.last
    /\ preserve_rv_mappings' = other.preserve_rv_mappings
    /\ memo' = other.memo
    /\ UNCHANGED <<adagrad, memoized, compound, caller, n0>>

NextPair == VisitFire \/ VisitRaise \/ NextSweep \/ EndStage \/ SwitchPair

SpecPair == InitPair /\ [][NextPair]_vars

(***************************************************************************)
(* CompoundStep (pymc3/step_methods/compound.py)                           *)
(***************************************************************************)
MaxMethods == 3
NPoints == 5

Points == 0..(NPoints - 1)

\* The step methods a CompoundStep may be built from: each moves a point
\* to a * point + b, and says whether it generates stats
Methods == [generates_stats : BOOLEAN, a : 1..2, b : 0..1]

\* method.step(point): the new point, with the list of the method's stats
\* when it generates stats
MethodStep(method, point) ==
    IF method.generates_stats
    THEN <<(method.a * point + method.b) % NPoints,
           <<[a |-> method.a, b |-> method.b, at |-> point]>> >>
    ELSE (method.a * point + method.b) % NPoints

\* all(...) where the code has any(...)
AllGenerateStats(methods) == \A k \in DOMAIN methods : methods[k].generates_stats

\* any(method.generates_stats for method in self.methods)
AnyGeneratesStats(methods) == \E k \in DOMAIN methods : methods[k].generates_stats

\* The variables of construct_ir_fgraph, which CompoundStep does not touch
pipeline == <<g, outputs, rv_values, original_values, supplied, n0, pc, queue,
              visited, fired, sweeps, last, preserve_rv_mappings, caller,
              memo, other>>

\* CompoundStep(methods), not yet stepped
InitCompound ==
    \E n \in 0..MaxMethods : \E methods \in [1..n -> Methods] :
        /\ compound = [pc |-> "idle",
                       methods |-> methods,
                       generates_stats |-> AnyGeneratesStats(methods),
                       arg |-> 0, point |-> 0, states |-> <<>>, pos |-> 1,
                       called |-> <<>>, ret |-> <<>>]
        /\ g = <<>>
        /\ outputs = <<>>
        /\ rv_values = EmptyDict
        /\ original_values = EmptyDict
        /\ supplied = {}
        /\ n0 = 0
        /\ pc = "none"
        /\ queue = <<>>
        /\ visited = {}
        /\ fired = 0
        /\ sweeps = [st \in Stages |-> 0]
        /\ last = Event("none", NoneV, "none", NoneV, NoneV)
        /\ preserve_rv_mappings = "none"
        /\ caller = EmptyDict
        /\ memo = EmptyDict
        /\ other = NoRequest
        /\ memoized = NoMemoize
        /\ adagrad = NoOptimizer

\* step(self, point) is entered
StepCall ==
    /\ compound.pc \in {"idle", "returned"}
    /\ \E point \in Points :
        compound' = [compound EXCEPT !.pc = "loop", !.arg = point,
                                     !.point = point, !.states = <<>>,
                                     !.pos = 1, !.called = <<>>,
                                     !.ret = <<>>]
    /\ UNCHANGED <<pipeline, memoized, adagrad>>

\* A wrong loop body: every method is given the caller's point
StepMethod_fromarg ==
    /\ compound.pc = "loop"
    /\ compound.pos <= Len(compound.methods)
    /\ \E method \in {compound.methods[compound.pos]} :
       \E r \in {MethodStep(method, compound.arg)} :
       \E point \in {IF method.generates_stats THEN r[1] ELSE r} :
       \E state \in {IF method.generates_stats THEN r[2] ELSE <<>>} :
        compound' = [compound EXCEPT
            !.point = point,
            !.states = compound.states \o state,
            !.pos = compound.pos + 1,
            !.called = Append(compound.called,
                              [m |-> compound.pos, in |-> compound.arg,
                               out |-> point])]
    /\ UNCHANGED <<pipeline, memoized, adagrad>>

\* One turn of "for method in self.methods": in either branch the point
\* is rebound to what method.step(point) gives, and the stats of a method
\* that generates them are appended
StepMethod ==
    /\ compound.pc = "loop"
    /\ compound.pos <= Len(compound.methods)
    /\ \E method \in {compound.methods[compound.pos]} :
       \E r \in {MethodStep(method, compound.point)} :
       \E point \in {IF compound.generates_stats /\ method.generates_stats
                     THEN r[1] ELSE r} :
       \E state \in {IF compound.generates_stats /\ method.generates_stats
                     THEN r[2] ELSE <<>>} :
        compound' = [compound EXCEPT
            !.point = point,
            !.states = compound.states \o state,
            !.pos = compound.pos + 1,
            !.called = Append(compound.called,
                              [m |-> compound.pos, in |-> compound.point,
                               out |-> point])]
    /\ UNCHANGED <<pipeline, memoized, adagrad>>

\* The loop is over: "return point, states" or "return point"
StepReturn ==
    /\ compound.pc = "loop"
    /\ compound.pos > Len(compound.methods)
    /\ compound' = [compound EXCEPT
            !.pc = "returned",
            !.ret = IF compound.generates_stats
                    THEN <<compound.point, compound.states>>
                    ELSE <<compound.point>>]
    /\ UNCHANGED <<pipeline, memoized, adagrad>>

NextCompound == StepCall \/ StepMethod \/ StepReturn

SpecCompound == InitCompound /\ [][NextCompound]_vars

(***************************************************************************)
(* memoize (pymc/memoize.py)                                               *)
(***************************************************************************)
MaxCalls == 3

\* Python values, each with its type: the number of an int, the character
\* of a one-character string, the elements of a list or a tuple
PyInt(n) == [t |-> "int", n |-> n, c |-> "", v |-> <<>>]
PyStr(c) == [t |-> "str", n |-> 0, c |-> c, v |-> <<>>]
PyList(s) == [t |-> "list", n |-> 0, c |-> "", v |-> s]
PyTuple(s) == [t |-> "tuple", n |-> 0, c |-> "", v |-> s]
\* a dict: its items, each a tuple (key, value), in the order iteritems()
\* gives them
PyDict(items) == [t |-> "dict", n |-> 0, c |-> "", v |-> items]

\* The positional and the keyword arguments of the calls
ArgTuples ==
    {PyTuple(<<>>), PyTuple(<<PyInt(1)>>), PyTuple(<<PyList(<<PyInt(1)>>)>>),
     PyTuple(<<PyTuple(<<PyInt(1)>>)>>), PyTuple(<<PyStr("a")>>)}
KwargDicts == {PyDict(<<>>), PyDict(<<PyTuple(<<PyStr("k"), PyInt(1)>>)>>)}

\* The frames left under the recursion limit when hashable is called:
\* enough for every element of the arguments to be reached
Depths == {3, 4}

\* hashable(a) with d frames left.  A dict goes by its items, each item a
\* pair; whatever can be iterated becomes the tuple of its elements made
\* hashable; what cannot (an int) makes map raise and is returned as it is.
\* A one-character string iterates to itself, so the recursion goes on to
\* the recursion limit, where the error is caught by the bare except and
\* the string returned: the result is the string in as many 1-tuples as
\* there were frames left.  An element that cannot be reached for want
\* of a frame leaves its container as it is
RECURSIVE hashable(_, _)
hashable(a, d) ==
    IF a.t = "dict"
    THEN IF d = 1 /\ a.v # <<>> THEN PyTuple(a.v)
         ELSE PyTuple([i \in DOMAIN a.v |-> hashable(a.v[i], d - 1)])
    ELSE IF a.t \in {"list", "tuple"}
    THEN IF d = 1 /\ a.v # <<>> THEN a
         ELSE PyTuple([i \in DOMAIN a.v |-> hashable(a.v[i], d - 1)])
    ELSE IF a.t = "str"
    THEN IF d = 1 THEN a ELSE PyTuple(<<hashable(a, d - 1)>>)
    ELSE a

\* key = (hashable(args), hashable(kwargs))
KeyOf(args, kwargs, d) == PyTuple(<<hashable(args, d), hashable(kwargs, d)>>)

\* obj(*args, **kwargs): the wrapped function need not be pure; what it
\* returns here is the number of the invocation
ObjValue(invoked) == Len(invoked) + 1

\* memoize(obj): the cache is empty, nothing has been called
InitMemoize ==
    /\ memoized = [pc |-> "wrapped", cache |-> EmptyDict, invoked |-> <<>>,
                   ncalls |-> 0, key |-> PyTuple(<<>>), hit |-> FALSE,
                   ret |-> NoneV]
    /\ compound = NoCompound
    /\ adagrad = NoOptimizer
    /\ g = <<>>
    /\ outputs = <<>>
    /\ rv_values = EmptyDict
    /\ original_values = EmptyDict
    /\ supplied = {}
    /\ n0 = 0
    /\ pc = "none"
    /\ queue = <<>>
    /\ visited = {}
    /\ fired = 0
    /\ sweeps = [st \in Stages |-> 0]
    /\ last = Event("none", NoneV, "none", NoneV, NoneV)
    /\ preserve_rv_mappings = "none"
    /\ caller = EmptyDict
    /\ memo = EmptyDict
    /\ other = NoRequest

\* A memoizer that calls obj and stores the result whatever the cache holds
memoizer_always ==
    /\ memoized.pc = "wrapped"
    /\ memoized.ncalls < MaxCalls
    /\ \E args \in ArgTuples : \E kwargs \in KwargDicts : \E d \in Depths :
       \E key \in {KeyOf(args, kwargs, d)} :
        memoized' = [memoized EXCEPT
            !.cache = Put(memoized.cache, key, ObjValue(memoized.invoked)),
            !.invoked = Append(memoized.invoked, key),
            !.ncalls = memoized.ncalls + 1,
            !.key = key,
            !.hit = key \in DOMAIN memoized.cache,
            !.ret = ObjValue(memoized.invoked)]
    /\ UNCHANGED <<pipeline, compound, adagrad>>

\* memoizer(*args, **kwargs): on a miss obj is called and its result is
\* stored under the key; in either case cache[key] is returned
memoizer ==
    /\ memoized.pc = "wrapped"
    /\ memoized.ncalls < MaxCalls
    /\ \E args \in ArgTuples : \E kwargs \in KwargDicts : \E d \in Depths :
       \E key \in {KeyOf(args, kwargs, d)} :
        IF key \notin DOMAIN memoized.cache
        THEN memoized' = [memoized EXCEPT
                !.cache = Put(memoized.cache, key, ObjValue(memoized.invoked)),
                !.invoked = Append(memoized.invoked, key),
                !.ncalls = memoized.ncalls + 1,
                !.key = key,
                !.hit = FALSE,
                !.ret = ObjValue(memoized.invoked)]
        ELSE memoized' = [memoized EXCEPT
                !.ncalls = memoized.ncalls + 1,
                !.key = key,
                !.hit = TRUE,
                !.ret = memoized.cache[key]]
    /\ UNCHANGED <<pipeline, compound, adagrad>>

NextMemoize == memoizer

SpecMemoize == InitMemoize /\ [][NextMemoize]_vars

(***************************************************************************)
(* adagrad_optimizer (pymc3/variational/advi.py)                           *)
(***************************************************************************)
\* The window of the default optimizer: advi calls
\* adagrad_optimizer(learning_rate, epsilon), so n_win has its default
n_win == 10

MaxUpdates == 12

\* The gradients of the loss the updates may meet, one number for each
\* element of param
Grads == {<<1, -2>>, <<0, 3>>}

\* value.shape: the elements of param
ParamIndex == 1..2

\* grad ** 2
Square(grad) == [r \in ParamIndex |-> grad[r] * grad[r]]

\* np.zeros(value.shape + (n_win,)): a column of zeros for every place of
\* the window
ZeroAccu == [c \in 0..(n_win - 1) |-> [r \in ParamIndex |-> 0]]

\* A wrong accu_new: the squared gradient is added to column i
accu_new_inc(accu, i, grad) ==
    [accu EXCEPT ![i] = [r \in ParamIndex |-> accu[i][r] + Square(grad)[r]]]

\* tt.set_subtensor(accu[:, i], grad ** 2)
accu_new(accu, i, grad) == [accu EXCEPT ![i] = Square(grad)]

\* tt.switch((i + 1) < n_win, i + 1, 0)
i_new(i) == IF (i + 1) < n_win THEN i + 1 ELSE 0

\* accu.sum(axis=1)
RECURSIVE SumColumns(_, _)
SumColumns(accu, c) ==
    IF c < 0 THEN [r \in ParamIndex |-> 0]
    ELSE [r \in ParamIndex |-> accu[c][r] + SumColumns(accu, c - 1)[r]]

accu_sum(accu) == SumColumns(accu, n_win - 1)

\* optimizer(loss, param): i is 0 and accu is all zeros; no update yet.
\* grads is the gradient of every update so far, and scale the accu_sum
\* that divided the last step
InitOptimizer ==
    /\ adagrad = [pc |-> "made", i |-> 0, accu |-> ZeroAccu, grads |-> <<>>,
                  scale |-> [r \in ParamIndex |-> 0]]
    /\ memoized = NoMemoize
    /\ compound = NoCompound
    /\ g = <<>>
    /\ outputs = <<>>
    /\ rv_values = EmptyDict
    /\ original_values = EmptyDict
    /\ supplied = {}
    /\ n0 = 0
    /\ pc = "none"
    /\ queue = <<>>
    /\ visited = {}
    /\ fired = 0
    /\ sweeps = [st \in Stages |-> 0]
    /\ last = Event("none", NoneV, "none", NoneV, NoneV)
    /\ preserve_rv_mappings = "none"
    /\ caller = EmptyDict
    /\ memo = EmptyDict
    /\ other = NoRequest

\* One call of f(): the updates of accu, i and param are computed from the
\* values before the call and made together.  The step of param is
\* learning_rate * grad / sqrt(accu_sum + epsilon); of it the model keeps
\* accu_sum
Update ==
    /\ adagrad.pc = "made"
    /\ Len(adagrad.grads) < MaxUpdates
    /\ \E grad \in Grads :
       \E new \in {accu_new(adagrad.accu, adagrad.i, grad)} :
        adagrad' = [adagrad EXCEPT
            !.accu = new,
            !.i = i_new(adagrad.i),
            !.grads = Append(adagrad.grads, grad),
            !.scale = accu_sum(new)]
    /\ UNCHANGED <<pipeline, compound, memoized>>

NextOptimizer == Update

SpecOptimizer == InitOptimizer /\ [][NextOptimizer]_vars

(***************************************************************************)
(* The two rules of the marker, fired in any order on any node they match, *)
(* until neither matches                                                   *)
(***************************************************************************)
\* The ops local_lift_DiracDelta is tried on
LiftOps == {"Elemwise", "Bcast", "DimShuffle", "Subtensor"}

InitMarkers ==
    \E n \in 0..MaxInit : \E gr \in Graphs(n) :
    \E extra \in SUBSET ((1..n) \ Sinks(gr)) :
    \E keys \in {Sinks(gr) \cup extra} :
    \E ks \in {SortedSeq(keys)} :
    \E store \in {gr \o [i \in 1..Len(ks) |-> Node("Input", <<>>, 0, 0, <<>>)]} :
    \E rv \in {[k \in keys |-> n + (CHOOSE i \in DOMAIN ks : ks[i] = k)]} :
        /\ g = store
        /\ outputs = ks
        /\ rv_values = rv
        /\ original_values = TrackerInit(rv)
        /\ supplied = keys
        /\ n0 = n
        /\ pc = "markers"
        /\ queue = <<>>
        /\ visited = {}
        /\ fired = 0
        /\ sweeps = [st \in Stages |-> 0]
        /\ last = Event("none", NoneV, "none", NoneV, NoneV)
        /\ preserve_rv_mappings = on_attach("none", "rv_remapper").attr
        /\ caller = rv
        /\ memo = [v \in DOMAIN store |-> v]
        /\ other = NoRequest
        /\ compound = NoCompound
        /\ memoized = NoMemoize
        /\ adagrad = NoOptimizer

\* The graph replaces n by what the rule returned, and tells the tracker
FireRule(name, n, res) ==
    /\ res.kind = "repl"
    /\ \E k \in {Cardinality(Clients(res.G, outputs, n))} :
          /\ g' = ReplaceNodes(res.G, outputs, n, res.out)
          /\ outputs' = ReplaceOutputs(outputs, n, res.out)
          /\ rv_values' = Notify(res.rv, n, res.out, k)
          /\ original_values' = res.ov
          /\ fired' = fired + 1
          /\ last' = Event(name, n, "repl", res.out, NoneV)
    /\ UNCHANGED <<adagrad, memoized, compound, other, caller, memo,
                   preserve_rv_mappings, supplied, n0, pc, queue, visited,
                   sweeps>>

\* local_lift_DiracDelta fires on a node it matches
FireLift ==
    /\ pc = "markers"
    /\ \E n \in {m \in ApplyNodes(g, outputs) : g[m].op \in LiftOps} :
        FireRule("local_lift_DiracDelta", n,
                 local_lift_DiracDelta(g, outputs, rv_values, original_values, n))

\* local_remove_DiracDelta fires on a DiracDelta
FireRemove ==
    /\ pc = "markers"
    /\ \E n \in {m \in ApplyNodes(g, outputs) : g[m].op = "DD"} :
        FireRule("local_remove_DiracDelta", n,
                 local_remove_DiracDelta(g, outputs, rv_values, original_values, n))

NextMarkers == FireLift \/ FireRemove

SpecMarkers == InitMarkers /\ [][NextMarkers]_vars

(***************************************************************************)
(* One call of construct_ir_fgraph from its first line to its return: the  *)
(* clone of the caller's graph and dict, then the rewrites                 *)
(***************************************************************************)
\* rv_values = {memo[k]: v for k, v in rv_values.items()}: a new dict
ClonedMap ==
    [nk \in {memo[k] : k \in DOMAIN caller} |->
        caller[CHOOSE k \in DOMAIN caller : memo[k] = nk]]

\* construct_ir_fgraph that returns a copy made of the dict before the
\* tracker was given it
Returned_copy ==
    [fgraph |-> [g |-> g, outputs |-> outputs], rv_values |-> ClonedMap,
     memo |-> memo]

\* return fgraph, rv_values, memo
Returned ==
    [fgraph |-> [g |-> g, outputs |-> outputs], rv_values |-> rv_values,
     memo |-> memo]

NextRequest ==
    \/ CloneGraph \/ StartRewrites
    \/ VisitFire \/ VisitRaise \/ NextSweep \/ EndStage

\* The caller's graph is one Variable short of the largest, or of the
\* largest size with one key, bound to a value Variable of its own
InitRequest ==
    /\ InitCaller
    /\ \/ n0 < MaxInit
       \/ Cardinality(DOMAIN caller) = 1 /\ \A k \in DOMAIN caller : caller[k] > n0

SpecRequest == InitRequest /\ [][NextRequest]_vars

(***************************************************************************)
(* Properties                                                              *)
(***************************************************************************)

\* C1: after any sequence of on_change_input notifications and
\* update_rv_maps calls, rv_values has as many keys as the caller supplied
C1_Cardinality == Cardinality(DOMAIN rv_values) = Cardinality(supplied)

\* C2: a notification that r was replaced by new_r, with r a key bound to
\* v, leaves new_r a key bound to v and r no key
C2_Transfer ==
    [][(last'.op = "on_change_input" /\ last'.node \in DOMAIN rv_values)
        => /\ last'.out \in DOMAIN rv_values'
           /\ rv_values'[last'.out] = rv_values[last'.node]
           /\ last'.node \notin DOMAIN rv_values']_vars

C2_Witness ==
    /\ last.op = "on_change_input" /\ last.kind = "transfer"
    /\ last.out \in DOMAIN rv_values
    /\ last.node \notin DOMAIN rv_values

\* What update_rv_maps(old_rv, new_value, new_rv) always does when old_rv
\* is bound to a value with a recorded original: the new binding, the new
\* original-value entry, and every other entry as it was
UpdateInstalls(old_rv, new_value, key) ==
    LET v == rv_values[old_rv]
        o == original_values[v]
    IN /\ DOMAIN rv_values' = ((DOMAIN rv_values) \ {old_rv}) \cup {key}
       /\ rv_values'[key] = new_value
       /\ \A k \in (DOMAIN rv_values) \ {old_rv, key} : rv_values'[k] = rv_values[k]
       /\ DOMAIN original_values' \cup {v} = (DOMAIN original_values) \cup {new_value}
       /\ original_values'[new_value] = o
       /\ \A w \in (DOMAIN original_values) \ {v, new_value} :
              original_values'[w] = original_values[w]

\* The binding old_rv -> v and the original-value entry of v are gone
UpdateRemoves(old_rv) ==
    LET v == rv_values[old_rv]
    IN /\ ~ (old_rv \in DOMAIN rv_values' /\ rv_values'[old_rv] = v)
       /\ v \notin DOMAIN original_values'

UpdateKey == IF last'.out = NoneV THEN last'.node ELSE last'.out

\* C3 as stated: update_rv_maps removes the binding old_rv -> v and the
\* original-value entry of v, installs new_rv -> new_value and
\* new_value -> o, and changes nothing else
C3_Original ==
    [][(last'.op = "update_rv_maps" /\ last'.kind = "ok")
        => /\ UpdateRemoves(last'.node)
           /\ UpdateInstalls(last'.node, last'.val, UpdateKey)]_vars

\* C3 amended: as stated when new_value is not the value v old_rv was
\* bound to; when new_value is v itself the entry of v stays (it is the
\* new entry, still mapped to o)
C3_Amended ==
    [][(last'.op = "update_rv_maps" /\ last'.kind = "ok")
        => /\ (last'.val # rv_values[last'.node] => UpdateRemoves(last'.node))
           /\ UpdateInstalls(last'.node, last'.val, UpdateKey)]_vars

C3_Witness ==
    /\ last.op = "update_rv_maps" /\ last.kind = "ok"
    /\ last.out # NoneV /\ last.out # last.node
    /\ last.node \notin DOMAIN rv_values
    /\ rv_values[last.out] = last.val
    /\ last.val \in DOMAIN original_values

\* A step in which incsubtensor_rv_replace fired
IncSubFires == fired' = fired + 1 /\ last'.op = "incsubtensor_lift"

\* C4: when incsubtensor_rv_replace fires on z = write(base, idx, data) with
\* z a key bound to y and base measurable and no key, then z is no key,
\* base is a key bound to write(y, idx, data) whose original value is the
\* one recorded for y, the replacement is base, and the map keeps its size
C4_Tracking ==
    [][IncSubFires =>
        LET z == last'.node
            base == g[z].ins[1]
        IN (z \in DOMAIN rv_values /\ Measurable(g[base].op) /\ base \notin DOMAIN rv_values)
           => /\ z \notin DOMAIN rv_values'
              /\ base \in DOMAIN rv_values'
              /\ rv_values'[base] \notin DOMAIN g
              /\ g'[rv_values'[base]] =
                    Node("IncSub", <<rv_values[z], g[z].ins[2]>>, 0, 0, g[z].idx)
              /\ original_values'[rv_values'[base]] = original_values[rv_values[z]]
              /\ last'.out = base
              /\ Cardinality(DOMAIN rv_values') = Cardinality(DOMAIN rv_values)]_vars

C4_Witness ==
    /\ last.op = "incsubtensor_lift" /\ last.kind = "repl"
    /\ last.node \notin DOMAIN rv_values
    /\ last.out \in DOMAIN rv_values
    /\ g[rv_values[last.out]].op = "IncSub"
    /\ Measurable(g[last.out].op)

\* The array [data0, y1, data1, y3, ...]: data written at positions 0 and 2
\* of the array of y
Written02(data, y) ==
    [i \in 0..(VecLen - 1) |->
        IF i = 0 THEN <<data, 0>> ELSE IF i = 2 THEN <<data, 1>> ELSE <<y, i>>]

\* C5: the value bound by incsubtensor_rv_replace holds the data at every
\* written index and the previous value y elsewhere; with indices [0, 2]
\* it is [data0, y1, data1, y3]; the binding is on the base and y is its
\* original value
C5_Value ==
    [][IncSubFires =>
        LET z == last'.node
            base == g[z].ins[1]
            data == g[z].ins[2]
            idx == g[z].idx
            y == rv_values[z]
            new_value == rv_values'[base]
        IN z \in DOMAIN rv_values
           => /\ base \in DOMAIN rv_values'
              /\ \A i \in 0..(VecLen - 1) :
                    Eval(g', new_value)[i] =
                        IF \E j \in DOMAIN idx : idx[j] = i
                        THEN <<data, (CHOOSE j \in DOMAIN idx : idx[j] = i) - 1>>
                        ELSE Eval(g, y)[i]
              /\ (idx = <<0, 2>> => Eval(g', new_value) = Written02(data, y))
              /\ original_values'[new_value] = y]_vars

C5_Witness ==
    /\ last.op = "incsubtensor_lift" /\ last.kind = "repl"
    /\ g[last.node].idx = <<0, 2>>
    /\ g[last.node].ins[2] # last.out
    /\ last.out \in DOMAIN rv_values
    /\ original_values[rv_values[last.out]] \in DOMAIN g
    /\ Eval(g, rv_values[last.out]) =
          Written02(g[last.node].ins[2], original_values[rv_values[last.out]])

\* n is a BroadcastTo of a RandomVariable that is a key of rv_values
BcastOfKey(n) ==
    /\ g[n].op = "Bcast"
    /\ g[g[n].ins[1]].op = "RV"
    /\ g[n].ins[1] \in DOMAIN rv_values

\* C6: naive_bcast_rv_lift returns None on a BroadcastTo of a keyed
\* RandomVariable, whatever the shape, and leaves graph and maps alone
C6_Declines ==
    \A n \in ApplyNodes(g, outputs) :
        BcastOfKey(n) =>
            naive_bcast_rv_lift(g, outputs, rv_values, original_values, n)
                = None(g, rv_values, original_values)

C6_Witness ==
    /\ pc = "ir"
    /\ \E n \in ApplyNodes(g, outputs) :
          BcastOfKey(n) /\ g[n].shp = 0 /\ n \in visited

IRMatch(n) == ResultAt("ir", g, outputs, rv_values, original_values, n).kind # "none"

\* C8: the measurable-IR stage ends only after a sweep that visited every
\* node and replaced nothing, and then no rule of the stage matches
C8_Equilibrium ==
    [][(pc = "ir" /\ pc' = NextStage("ir"))
        => /\ fired = 0
           /\ queue = <<>>
           /\ ApplyNodes(g, outputs) \subseteq visited
           /\ \A n \in ApplyNodes(g, outputs) : ~ IRMatch(n)]_vars

\* The stage took three sweeps, and the last replacement was by the
\* partial-observation rule on a base that another rule produced
C8_Witness ==
    /\ pc = "post"
    /\ sweeps["ir"] >= 3
    /\ last.op = "incsubtensor_lift"
    /\ last.out > n0

\* local_lift_DiracDelta matches node n
LiftMatch(n) ==
    /\ g[n].op \in {"Elemwise", "Bcast", "DimShuffle", "Subtensor"}
    /\ local_lift_DiracDelta(g, outputs, rv_values, original_values, n).kind # "none"

\* Some rule of the catalog matches node n
CatalogMatch(n) ==
    \/ LiftMatch(n)
    \/ /\ g[n].op = "DD"
       /\ local_remove_DiracDelta(g, outputs, rv_values, original_values, n).kind # "none"
    \/ /\ g[n].op = "Bcast"
       /\ naive_bcast_rv_lift(g, outputs, rv_values, original_values, n).kind # "none"
    \/ /\ g[n].op = "IncSub"
       /\ incsubtensor_rv_replace(g, outputs, rv_values, original_values, n).kind # "none"

\* C9 as stated: no rule of the catalog matches a node of the returned graph
C9_Original ==
    pc = "done" => \A n \in ApplyNodes(g, outputs) : ~ CatalogMatch(n)

\* C9 amended: local_lift_DiracDelta matches no node of the returned graph
C9_Amended ==
    pc = "done" => \A n \in ApplyNodes(g, outputs) : ~ LiftMatch(n)

\* The graph is returned after a lift through a marker, with a marker in it
C9_Witness ==
    /\ pc = "done"
    /\ last.op = "local_lift_DiracDelta"
    /\ \E n \in ApplyNodes(g, outputs) : g[n].op = "DD"

\* C10 as stated: the measurable-IR stage takes at most N sweeps
C10_Original == sweeps["ir"] <= n0

\* A step of the stage can be taken: with nodes queued, the visit of the
\* first one (its rule fires or raises); with none queued, the next sweep
\* when the sweep replaced something and the end of the stage when not
CanStep ==
    \/ queue = <<>>
    \/ queue # <<>> /\ HeadResult.kind = "raise"
    \/ queue # <<>> /\ HeadResult.kind = "repl" /\ Len(HeadResult.G) <= MaxVars

\* C10 amended: the measurable-IR stage never gets stuck, and takes at most
\* N sweeps, or one sweep when the graph is empty
C10_Amended ==
    /\ sweeps["ir"] <= Max(n0, 1)
    /\ (pc = "ir" => CanStep)

\* The stage ended after as many sweeps as the graph has Variables
C10_Witness ==
    /\ pc = "post"
    /\ n0 >= 2
    /\ sweeps["ir"] = n0

\* The rules registered in measurable_ir_rewrites_db
IRRules == {"dimshuffle_lift", "subtensor_lift", "broadcast_to_lift", "incsubtensor_lift"}

\* C11 as stated: the stages run in the order pre-canonicalize,
\* measurable-IR lifting, post-canonicalize, each entered once; a rule of
\* the lifting stage fires only while that stage runs, after
\* pre-canonicalize has ended and before post-canonicalize has begun; a
\* derivation that returns has run all three.  It holds of every
\* derivation only if the query puts pre-canonicalize before
\* measurable_ir_rewrites; the two are registered at the same position
C11_StageOrder ==
    [][/\ (pc' # pc =>
              \/ <<pc, pc'>> \in {<<"pre", "ir">>, <<"ir", "post">>, <<"post", "done">>}
              \/ pc' = "raised")
       /\ ((fired' = fired + 1 /\ last'.op \in IRRules) =>
              /\ pc = "ir" /\ pc' = "ir"
              /\ sweeps["pre"] >= 1
              /\ sweeps["post"] = 0)
       /\ (pc' = "done" => \A st \in Stages : sweeps'[st] >= 1)]_vars

\* C12: when a rule of the measurable-IR stage raises, the derivation ends
\* there: the exception leaves construct_ir_fgraph, nothing is replaced,
\* post-canonicalize has not run and no step follows
C12_Abort ==
    [][/\ pc # "raised"
       /\ ((pc \in Stages /\ queue # <<>> /\ HeadResult.kind = "raise") =>
              /\ pc' = "raised"
              /\ outputs' = outputs
              /\ fired' = fired
              /\ last'.kind = "raise")
       /\ (pc' = "raised" => pc = "ir" /\ sweeps["post"] = 0)]_vars

C12_Witness ==
    /\ pc = "raised"
    /\ last.kind = "raise"
    /\ last.op = "broadcast_to_lift"
    /\ sweeps["post"] = 0

\* C13: attaching a tracker to a graph that has one raises ValueError and
\* leaves the graph's tracker and the maps as they were; attaching to a
\* graph that has none makes it the graph's tracker; the graph's tracker
\* never changes once set
C13_OneTracker ==
    [][/\ (last'.op = "on_attach" =>
              IF preserve_rv_mappings # "none"
              THEN /\ last'.kind = "raise"
                   /\ preserve_rv_mappings' = preserve_rv_mappings
                   /\ rv_values' = rv_values
                   /\ original_values' = original_values
              ELSE /\ last'.kind = "ok"
                   /\ preserve_rv_mappings' = last'.val)
       /\ (preserve_rv_mappings # "none" =>
              preserve_rv_mappings' = preserve_rv_mappings)]_vars

\* A second attach was refused after the maps had been worked on
C13_Witness ==
    /\ last.op = "on_attach" /\ last.kind = "raise"
    /\ preserve_rv_mappings = "rv_remapper"
    /\ last.val = "second"
    /\ DOMAIN rv_values # supplied

\* What the rule a stage has for node n returns, before the graph applies it
RuleResult(st, n) == ResultAt(st, g, outputs, rv_values, original_values, n)

\* The tracker maps are as they were when the rule returns
LeavesMaps(res) == res.rv = rv_values /\ res.ov = original_values

\* C14 as stated: whatever a rule returns for a node of the graph, both
\* maps are as they were until the graph applies the replacement
C14_Original ==
    \A n \in ApplyNodes(g, outputs) : \A st \in Stages : LeavesMaps(RuleResult(st, n))

\* C14 amended: that holds of every rule but incsubtensor_rv_replace, which
\* leaves the maps alone when it returns None and has moved the binding to
\* the base, with update_rv_maps, by the time it returns a replacement
C14_Amended ==
    \A n \in ApplyNodes(g, outputs) : \A st \in Stages :
        LET res == RuleResult(st, n) IN
        IF RuleOf(st, g[n].op) = "incsubtensor_lift" /\ res.kind = "repl"
        THEN /\ n \notin DOMAIN res.rv
             /\ res.out \in DOMAIN res.rv
             /\ res.rv[res.out] \notin DOMAIN g
             /\ res.rv[res.out] \in DOMAIN res.ov
             /\ rv_values[n] \notin DOMAIN res.ov
        ELSE LeavesMaps(res)

\* One key is matched by a rule that leaves the maps alone, another by the
\* partial-observation rule
C14_Witness ==
    /\ pc = "ir"
    /\ \E n \in ApplyNodes(g, outputs) \cap DOMAIN rv_values :
          /\ g[n].op # "IncSub"
          /\ RuleResult("ir", n).kind = "repl"
          /\ LeavesMaps(RuleResult("ir", n))
    /\ \E n \in ApplyNodes(g, outputs) \cap DOMAIN rv_values :
          /\ g[n].op = "IncSub"
          /\ RuleResult("ir", n).kind = "repl"
          /\ ~ LeavesMaps(RuleResult("ir", n))

\* The number of dimensions of a Variable: a RandomVariable has its own, a
\* BroadcastTo that of its target shape, every other Op the largest of its
\* inputs'
RECURSIVE Ndim(_, _)
Ndim(G, v) ==
    CASE G[v].op = "RV" -> G[v].nd
      [] G[v].op = "Bcast" -> G[v].shp
      [] G[v].ins = <<>> -> G[v].nd
      [] OTHER -> LET ds == {Ndim(G, x) : x \in Range(G[v].ins)}
                  IN CHOOSE d \in ds : \A e \in ds : e <= d

\* A graph an Op's make_node accepts: nothing broadcasts a Variable that has
\* dimensions to the empty shape
WellFormed(G, outs) ==
    \A n \in ApplyNodes(G, outs) :
        (G[n].op = "Bcast" /\ G[n].shp = 0) => Ndim(G, G[n].ins[1]) = 0

CallerValues == (n0 + 1)..(n0 + Cardinality(supplied))

\* The original value recorded for what key k is bound to
OriginalOf(rv, ov, k) == ov[rv[k]]

C17_KeysReachable == DOMAIN rv_values \subseteq Variables(g, outputs)

\* A binding has moved to a replacement that is in the graph, and the node
\* it came from has left the graph
C17_Witness ==
    /\ pc \in Stages
    /\ fired > 0
    /\ last.out \in DOMAIN rv_values
    /\ last.out \in Variables(g, outputs)
    /\ last.node \notin Variables(g, outputs)
    /\ last.node \in supplied

\* C18: after any sequence of on_change_input notifications and
\* update_rv_maps calls, rv_values has no more keys than the caller supplied
C18_SizeBound == Cardinality(DOMAIN rv_values) <= Cardinality(supplied)

\* update_rv_maps has bound a Variable that was no key of the caller's, and
\* the map is as large as the caller's
C18_Witness ==
    /\ last.op = "update_rv_maps" /\ last.kind = "ok"
    /\ last.out # NoneV
    /\ last.out \notin supplied
    /\ last.out \in DOMAIN rv_values
    /\ Cardinality(DOMAIN rv_values) = Cardinality(supplied)


\* C20: right after cloning, memo sends every value Variable the caller
\* supplied to itself, every key that has an owner and is no value Variable
\* to a new Variable with the same op, the clone of key k is bound to the
\* very value the caller bound k to, and a value Variable the key depended
\* on is still what its clone depends on
C20_Pinned ==
    pc = "cloned" =>
        /\ \A v \in Range(caller) : v \in DOMAIN memo /\ memo[v] = v
        /\ \A k \in DOMAIN caller :
            /\ k \in DOMAIN memo
            /\ memo[k] \in DOMAIN rv_values
            /\ rv_values[memo[k]] = caller[k]
            /\ (g[k].op # "Input" /\ k \notin Range(caller)) =>
                    /\ memo[k] > n0 + Cardinality(DOMAIN caller)
                    /\ g[memo[k]].op = g[k].op
            /\ \A above \in {Variables(g, <<k>>) \cap Range(caller)} :
                    above # {} => above \subseteq Variables(g, <<memo[k]>>)

C20_Witness ==
    /\ pc = "cloned"
    /\ \E k \in DOMAIN caller :
        /\ g[caller[k]].op # "Input"
        /\ k # caller[k]
        /\ caller[k] \in Variables(g, <<k>>)
        /\ memo[k] # k
        /\ rv_values[memo[k]] = caller[k]


\* C19: a step of the running call changes no node of the working graph of
\* the other call
C19_Independent ==
    [][(other' = other /\ other.pc # "caller") =>
            \A v \in Variables(g, other.outputs) : g'[v] = g[v]]_vars


\* The keys of the caller's dict in the caller's order
CallerKeys == SortedSeq(DOMAIN caller)

\* C21: the working graph has one output slot per key of the caller's map;
\* slot i holds a key of rv_values whose binding goes back to the value the
\* caller bound to its i-th key, and no step changes the number of slots
C21_Slots ==
    /\ Len(outputs) = Cardinality(DOMAIN caller)
    /\ \A i \in DOMAIN outputs :
        /\ outputs[i] \in DOMAIN rv_values
        /\ OriginalOf(rv_values, original_values, outputs[i]) = caller[CallerKeys[i]]

\* The derivation has returned a graph with two slots, the first of which
\* holds a node that replaced the caller's first key
C21_Witness ==
    /\ pc = "done"
    /\ Len(outputs) >= 2
    /\ outputs[1] # CallerKeys[1]
    /\ outputs[1] \notin supplied
    /\ outputs[2] = CallerKeys[2]


\* C22: with an empty Binding Map the derivation never raises and fires no
\* rule, the graph has no outputs and the map stays empty, and while a
\* stage is running the derivation can go on, to its return
C22_Empty ==
    caller = EmptyDict =>
        /\ pc # "raised"
        /\ fired = 0
        /\ last.kind = "none"
        /\ outputs = <<>>
        /\ rv_values = EmptyDict
        /\ original_values = EmptyDict
        /\ (pc \in Stages => ENABLED Next)

\* The derivation over the empty Binding Map has gone through its three
\* stages and returned
C22_Witness ==
    /\ caller = EmptyDict
    /\ pc = "done"
    /\ \A st \in Stages : sweeps[st] = 1
    /\ rv_values = EmptyDict


\* naive_bcast_rv_lift fires on node n of the working graph
BcastFires(n) ==
    /\ g[n].op = "Bcast"
    /\ naive_bcast_rv_lift(g, outputs, rv_values, original_values, n).kind = "repl"

\* The target shape of BroadcastTo n is the shape its input has already:
\* every dimension has VecLen elements, so shapes of one length are equal
SameShape(n) == g[n].shp = Ndim(g, g[n].ins[1])

\* C23 as stated: when naive_bcast_rv_lift fires on a BroadcastTo to the
\* shape its RandomVariable has already, or to the empty shape, it returns
\* that RandomVariable and makes no node
C23_Original ==
    \A n \in ApplyNodes(g, outputs) :
        (BcastFires(n) /\ (g[n].shp = 0 \/ SameShape(n))) =>
            \E res \in {naive_bcast_rv_lift(g, outputs, rv_values, original_values, n)} :
                res.out = g[n].ins[1] /\ res.G = g

\* C23 amended: when naive_bcast_rv_lift fires on a BroadcastTo to the empty
\* shape it returns the RandomVariable it broadcasts, a scalar, and makes no
\* node; on any other target shape, the RandomVariable's own included, it
\* returns a new RandomVariable over broadcast parameters
C23_Amended ==
    \A n \in ApplyNodes(g, outputs) :
        BcastFires(n) =>
            \E res \in {naive_bcast_rv_lift(g, outputs, rv_values, original_values, n)} :
                /\ g[n].shp = 0 =>
                    /\ res.out = g[n].ins[1]
                    /\ res.G = g
                    /\ g[res.out].nd = 0
                /\ g[n].shp # 0 =>
                    /\ res.out \notin DOMAIN g
                    /\ res.out \in DOMAIN res.G
                    /\ res.G[res.out].op = "RV"

\* The rule has just replaced a BroadcastTo to the empty shape by the
\* RandomVariable under it, and no node was made
C23_Witness ==
    /\ pc = "ir"
    /\ last.op = "broadcast_to_lift"
    /\ last.kind = "repl"
    /\ g[last.node].shp = 0
    /\ last.out = g[last.node].ins[1]
    /\ Len(g) = n0 + Cardinality(supplied)


\* n is a node local_lift_DiracDelta has to decline
LiftDeclines(G, n) ==
    \/ NOutputs(G[n]) > 1
    \/ G[n].op = "Elemwise" /\ Len(G[n].ins) # 1
    \/ G[G[n].ins[1]].op # "DD"

\* C24: local_lift_DiracDelta called on a node with more than one output,
\* on an Elemwise that has not exactly one input, or on a node whose first
\* input no DiracDelta computes, returns None and leaves the graph as it was
C24_Declines ==
    [][LiftDeclines(g, last'.node) =>
            /\ last'.kind = "none"
            /\ last'.out = NoneV
            /\ g' = g
            /\ rv_values' = rv_values]_vars

\* The rule was called on an Elemwise with two outputs over a DiracDelta,
\* and declined
C24_Witness ==
    /\ pc = "applied"
    /\ last.kind = "none"
    /\ NOutputs(g[last.node]) > 1
    /\ g[g[last.node].ins[1]].op = "DD"


\* The Variables of G that are given, not computed: inputs and the draws
\* of RandomVariables
Sources(G) == {v \in DOMAIN G : G[v].op \in {"Input", "RV"}}

\* Concrete arrays over 0..VecLen-1: all zero, the ramp, the ramp reversed
Arrays ==
    {[i \in 0..(VecLen - 1) |-> 0],
     [i \in 0..(VecLen - 1) |-> i],
     [i \in 0..(VecLen - 1) |-> VecLen - 1 - i]}

\* What Variable v evaluates to when the given Variables hold env.  A
\* DiracDelta evaluates to the value it wraps; Elemwise adds one (or its
\* two inputs) modulo VecLen, DimShuffle reverses, Subtensor reads at its
\* index input, or one place on when it has none, BroadcastTo keeps an
\* array of the target shape, IncSubtensor writes its data at its indices
RECURSIVE Value(_, _, _)
Value(G, env, v) ==
    IF v \in DOMAIN env THEN env[v]
    ELSE LET x == Value(G, env, G[v].ins[1]) IN
         CASE G[v].op = "DD" -> x
           [] G[v].op = "Elemwise" /\ Len(G[v].ins) = 1 ->
                [i \in 0..(VecLen - 1) |-> (x[i] + 1) % VecLen]
           [] G[v].op = "Elemwise" /\ Len(G[v].ins) # 1 ->
                LET y == Value(G, env, G[v].ins[2])
                IN [i \in 0..(VecLen - 1) |-> (x[i] + y[i]) % VecLen]
           [] G[v].op = "DimShuffle" ->
                [i \in 0..(VecLen - 1) |-> x[VecLen - 1 - i]]
           [] G[v].op = "Subtensor" /\ Len(G[v].ins) = 1 ->
                [i \in 0..(VecLen - 1) |-> x[(i + 1) % VecLen]]
           [] G[v].op = "Subtensor" /\ Len(G[v].ins) # 1 ->
                LET y == Value(G, env, G[v].ins[2])
                IN [i \in 0..(VecLen - 1) |-> x[y[i]]]
           [] G[v].op = "IncSub" ->
                LET y == Value(G, env, G[v].ins[2])
                    idx == G[v].idx
                IN [i \in 0..(VecLen - 1) |->
                        IF \E j \in DOMAIN idx : idx[j] = i
                        THEN y[(CHOOSE j \in DOMAIN idx : idx[j] = i) - 1]
                        ELSE x[i]]
           [] OTHER -> x

\* C25: when local_lift_DiracDelta lifts node op(marker(V), rest) it returns
\* a DiracDelta over a node of the same Op over V and rest, and for every
\* value of the given Variables what it returns evaluates to what the node
\* evaluated to
C25_SameValue ==
    [][last'.kind = "repl" =>
        /\ g'[last'.out].op = "DD"
        /\ g'[g'[last'.out].ins[1]].op = g[last'.node].op
        /\ \A env \in [Sources(g) -> Arrays] :
              Value(g', env, last'.out) = Value(g, env, last'.node)]_vars

\* The rule lifted a Subtensor that reads a DiracDelta at an index input,
\* and the index is not the same array for every value
C25_Witness ==
    /\ pc = "applied"
    /\ last.kind = "repl"
    /\ g[last.node].op = "Subtensor"
    /\ Len(g[last.node].ins) = 2
    /\ g[g[last.out].ins[1]].ins[2] = g[last.node].ins[2]
    /\ \E e1, e2 \in [Sources(g) -> Arrays] :
          Value(g, e1, last.out) # Value(g, e2, last.out)


\* C26: when local_remove_DiracDelta has been run to its fixpoint, running
\* it again finds no node to replace: no DiracDelta is left in the graph,
\* and no step of the second run changes the graph, its outputs or the
\* tracker's maps
C26_Idempotent ==
    /\ [](pc \in {"again", "done"} =>
            /\ queue = <<>>
            /\ \A n \in ApplyNodes(g, outputs) :
                  /\ g[n].op # "DD"
                  /\ ResultAt("again", g, outputs, rv_values, original_values, n).kind = "none")
    /\ [][pc = "again" =>
            /\ g' = g
            /\ outputs' = outputs
            /\ rv_values' = rv_values
            /\ original_values' = original_values
            /\ last' = last]_vars

\* The second run is over, after a first run that removed a DiracDelta that
\* was a key, whose binding went to the Variable it wrapped
C26_Witness ==
    /\ pc = "done"
    /\ last.op = "local_remove_DiracDelta"
    /\ last.node \in supplied
    /\ last.out \in DOMAIN rv_values
    /\ rv_values[last.out] = caller[last.node]


\* The firings of local_lift_DiracDelta so far: each made two nodes, and
\* on these chains no other rule fires
LiftFirings == (Len(g) - n0 - Cardinality(supplied)) \div 2

\* The last output is DiracDelta(op4(op3(V))), the chain with its
\* DiracDelta lifted to the top
FullyLifted ==
    \E o \in {outputs[Len(outputs)]} :
        /\ g[o].op = "DD"
        /\ \E a \in {g[o].ins[1]} :
            /\ g[a].op = g[4].op
            /\ g[a].ins # <<>>
            /\ \E b \in {g[a].ins[1]} :
                /\ g[b].op = g[3].op /\ g[b].shp = g[3].shp
                /\ g[b].ins = <<1>>

\* C27 as stated: pre-canonicalize leaves the chain fully lifted, after
\* three firings
C27_Original ==
    [][(pc = "pre" /\ pc' = NextStage("pre")) => (FullyLifted /\ LiftFirings = 3)]_vars

\* C27 amended: pre-canonicalize leaves the chain fully lifted after two
\* firings of local_lift_DiracDelta, one for each Op above the DiracDelta,
\* and the chain is fully lifted exactly when the second has fired
C27_Amended ==
    /\ [](pc = "pre" => (LiftFirings <= 2 /\ (FullyLifted <=> LiftFirings = 2)))
    /\ [][(pc = "pre" /\ pc' = NextStage("pre")) => (FullyLifted /\ LiftFirings = 2)]_vars

\* reshuffle(broadcast(marker(V))) has just become
\* marker(reshuffle(broadcast(V))), in the second sweep of pre-canonicalize
C27_Witness ==
    /\ pc = "pre"
    /\ g[4].op = "DimShuffle" /\ g[3].op = "Bcast" /\ g[2].op = "DD"
    /\ FullyLifted
    /\ LiftFirings = 2
    /\ sweeps["pre"] = 2
    /\ last.op = "local_lift_DiracDelta"
    /\ last.node = 4


\* C28: on a graph with no tracker attached every call of
\* incsubtensor_rv_replace returns None, raises nothing, and leaves the
\* graph and both maps as they were
C28_NoTracker ==
    [][preserve_rv_mappings = "none" =>
            /\ last'.kind = "none"
            /\ last'.out = NoneV
            /\ g' = g
            /\ outputs' = outputs
            /\ rv_values' = rv_values
            /\ original_values' = original_values]_vars

\* The rule was called, with no tracker attached, on a write node that is
\* a key of the caller's dict and writes into a RandomVariable that is none:
\* the node the rule replaces when the tracker is attached
C28_Witness ==
    /\ preserve_rv_mappings = "none"
    /\ last.op = "incsubtensor_lift"
    /\ last.kind = "none"
    /\ last.node \in DOMAIN rv_values
    /\ incsubtensor_rv_replace(g, outputs, rv_values, original_values, last.node).kind = "repl"


\* How far a derivation has come: its stage, the sweeps of every stage,
\* and the firings and visits of the sweep it is in
Progress(r) == <<r.pc, r.sweeps, r.fired, r.visited>>

\* Two derivations are in the same state: graph, outputs, maps, deque and
\* the last rule call
SameState(r, t) == [r EXCEPT !.id = 0] = [t EXCEPT !.id = 0]

PointOf(method, point) ==
    IF method.generates_stats THEN MethodStep(method, point)[1]
    ELSE MethodStep(method, point)

\* C30: while step runs, the methods stepped so far are the first ones of
\* the list, in list order and once each; the first was given the caller's
\* point and every other the point its predecessor returned; and when step
\* returns, every method of the list has been stepped exactly once and the
\* point returned is the one the last method produced
C30_InOrder ==
    compound.pc \in {"loop", "returned"} =>
        /\ Len(compound.called) = compound.pos - 1
        /\ \A k \in DOMAIN compound.called :
            /\ compound.called[k].m = k
            /\ compound.called[k].in =
                    (IF k = 1 THEN compound.arg ELSE compound.called[k - 1].out)
            /\ compound.called[k].out =
                    PointOf(compound.methods[k], compound.called[k].in)
        /\ compound.pc = "returned" =>
            /\ Len(compound.called) = Len(compound.methods)
            /\ compound.ret[1] =
                    (IF compound.called = <<>> THEN compound.arg
                     ELSE compound.called[Len(compound.called)].out)

\* step has returned from three methods, with and without stats among
\* them, that moved the point every time
C30_Witness ==
    /\ compound.pc = "returned"
    /\ Len(compound.methods) = 3
    /\ compound.methods[1].generates_stats
    /\ ~compound.methods[2].generates_stats
    /\ \A k \in 1..3 : compound.called[k].in # compound.called[k].out
    /\ compound.ret[1] # compound.arg
    /\ Len(compound.ret) = 2


\* How often obj was invoked with key
Invocations(key) ==
    Cardinality({i \in DOMAIN memoized.invoked : memoized.invoked[i] = key})

LastUpdates(t) == {u \in 1..t : u > t - n_win}

\* The sum of the squared gradients of the updates in U
RECURSIVE SumSquares(_, _)
SumSquares(grads, U) ==
    IF U = {} THEN [r \in ParamIndex |-> 0]
    ELSE LET u == CHOOSE x \in U : TRUE
         IN [r \in ParamIndex |->
                Square(grads[u])[r] + SumSquares(grads, U \ {u})[r]]

\* C32: the write index is within the window and moves on by one at every
\* update, back to 0 after the last column; after t updates every column
\* holds the squared gradient of the one update among the last
\* min(t, n_win) that wrote it, the columns not yet written are zero, and
\* what divides the step is the sum of the squared gradients of those
\* updates only
C32_Window ==
    /\ [](adagrad.pc = "made" =>
            \E t \in {Len(adagrad.grads)} :
              /\ 0 <= adagrad.i /\ adagrad.i < n_win
              /\ adagrad.i = t % n_win
              /\ \A u \in LastUpdates(t) :
                    adagrad.accu[(u - 1) % n_win] = Square(adagrad.grads[u])
              /\ \A c \in 0..(n_win - 1) :
                    (\A u \in LastUpdates(t) : (u - 1) % n_win # c) =>
                        adagrad.accu[c] = [r \in ParamIndex |-> 0]
              /\ Cardinality(LastUpdates(t)) = (IF t < n_win THEN t ELSE n_win)
              /\ (t > 0 => adagrad.scale =
                              SumSquares(adagrad.grads, LastUpdates(t))))
    /\ [][adagrad'.i = (adagrad.i + 1) % n_win]_vars

\* Two updates past the window: column 0 was written again with another
\* gradient than the first, which divides the step no more
C32_Witness ==
    /\ adagrad.pc = "made"
    /\ Len(adagrad.grads) = n_win + 2
    /\ adagrad.i = 2
    /\ adagrad.grads[1] # adagrad.grads[n_win + 1]
    /\ adagrad.accu[0] = Square(adagrad.grads[n_win + 1])
    /\ adagrad.scale # SumSquares(adagrad.grads, 1..(n_win + 2))


\* C33: update_rv_maps called with an old_rv that is not a key of
\* rv_values raises KeyError, and rv_values and original_values are after
\* the call what they were before it
C33_MissingKey ==
    [][(last'.op = "update_rv_maps" /\ last'.node \notin DOMAIN rv_values)
        => /\ last'.kind = "raise"
           /\ rv_values' = rv_values
           /\ original_values' = original_values]_vars

\* The call raised on an old_rv that was never a key, with every binding
\* of the caller still in the map
C33_Witness ==
    /\ pc = "api"
    /\ last.op = "update_rv_maps"
    /\ last.kind = "raise"
    /\ last.node \notin supplied
    /\ supplied # {}
    /\ DOMAIN rv_values = supplied
    /\ DOMAIN original_values = Range(rv_values)


\* The graph above Variable v as a term: a Variable without inputs is
\* itself, any other the op of its node over the terms of the inputs,
\* whichever node it is
RECURSIVE Term(_, _)
Term(G, v) ==
    IF G[v].ins = <<>>
    THEN [op |-> G[v].op, shp |-> G[v].shp, nd |-> G[v].nd, idx |-> G[v].idx,
          id |-> v, args |-> <<>>]
    ELSE [op |-> G[v].op, shp |-> G[v].shp, nd |-> G[v].nd, idx |-> G[v].idx,
          id |-> 0, args |-> [i \in DOMAIN G[v].ins |-> Term(G, G[v].ins[i])]]

\* The term above v with every DiracDelta left out
RECURSIVE Unmarked(_, _)
Unmarked(G, v) ==
    IF G[v].op = "DD" THEN Unmarked(G, G[v].ins[1])
    ELSE IF G[v].ins = <<>> THEN Term(G, v)
    ELSE [op |-> G[v].op, shp |-> G[v].shp, nd |-> G[v].nd, idx |-> G[v].idx,
          id |-> 0, args |-> [i \in DOMAIN G[v].ins |-> Unmarked(G, G[v].ins[i])]]

\* Neither rule matches a node of the graph
NoMarkerRule ==
    \A n \in ApplyNodes(g, outputs) :
        /\ g[n].op # "DD"
        /\ g[n].op \in LiftOps =>
              local_lift_DiracDelta(g, outputs, rv_values, original_values, n).kind = "none"

\* C34: in whatever order local_lift_DiracDelta and local_remove_DiracDelta
\* fire, no firing changes what an output is once the markers are left
\* out, and when neither rule matches any more every output is that term:
\* the graph without its markers, the same for every order.  From
\* op(marker(V)), lifting and then removing and removing at once both end
\* in op(V)
C34_Confluent ==
    /\ [][\A i \in DOMAIN outputs :
            Unmarked(g', outputs'[i]) = Unmarked(g, outputs[i])]_vars
    /\ [](NoMarkerRule =>
            \A i \in DOMAIN outputs :
                Term(g, outputs[i]) = Unmarked(g, outputs[i]))

\* Neither rule matches any more, after a lift and then the removal of
\* the marker it had lifted to an output
C34_Witness ==
    /\ pc = "markers"
    /\ NoMarkerRule
    /\ fired >= 2
    /\ Len(g) > n0 + Cardinality(supplied)
    /\ last.op = "local_remove_DiracDelta"
    /\ last.node > n0 + Cardinality(supplied)
    /\ last.out > n0 + Cardinality(supplied)
    /\ last.out \in Range(outputs)


\* C35: a call of on_change_input leaves original_values as it was; when
\* the replaced Variable r is not a key of rv_values it leaves rv_values
\* as it was too; and the notifications for one replacement, one for each
\* client of r, leave rv_values as a single one does
C35_Frame ==
    [][last'.op = "on_change_input"
        => /\ original_values' = original_values
           /\ (last'.node \notin DOMAIN rv_values => rv_values' = rv_values)
           /\ \A k \in 1..MaxClients :
                 Notify(rv_values, last'.node, last'.out, k) = rv_values']_vars

\* A transfer onto a Variable that was a key already: a binding fewer
C35_Witness ==
    /\ last.op = "on_change_input" /\ last.kind = "transfer"
    /\ last.out \in DOMAIN rv_values
    /\ Cardinality(DOMAIN rv_values) < Cardinality(supplied)


\* What the tracker has done to its rv_values since the clone
TrackerChanged == rv_values # ClonedMap

WriteNodes == {n \in ApplyNodes(g, outputs) : g[n].op = "IncSub"}

\* One of the four conditions holds of write node n: its output is no key,
\* its base has no owner, the owner of its base is not measurable, or its
\* base is a key
MustDecline(n) ==
    LET base == g[n].ins[1]
    IN \/ n \notin DOMAIN rv_values
       \/ g[base].op = "Input"
       \/ ~ Measurable(g[base].op)
       \/ base \in DOMAIN rv_values

\* C37: on a write node of which one of the four conditions holds,
\* incsubtensor_rv_replace returns None, and the graph, rv_values and
\* original_values are after the call what they were before it
C37_Declines ==
    \A n \in WriteNodes :
        MustDecline(n) =>
            incsubtensor_rv_replace(g, outputs, rv_values, original_values, n)
                = None(g, rv_values, original_values)

\* The graph is returned with a write node in it that is a key, over a
\* measurable base that is a key as well: the rule declined it in every
\* sweep
C37_Witness ==
    /\ pc = "done"
    /\ \E n \in WriteNodes :
          /\ n \in DOMAIN rv_values
          /\ Measurable(g[g[n].ins[1]].op)
          /\ g[n].ins[1] \in DOMAIN rv_values


\* The stats of the methods 1..k that generate stats, in the order of the
\* methods, each method's as it returned them from the point it was given
RECURSIVE StatsUpTo(_)
StatsUpTo(k) ==
    IF k = 0 THEN <<>>
    ELSE IF compound.methods[k].generates_stats
         THEN StatsUpTo(k - 1)
                \o MethodStep(compound.methods[k], compound.called[k].in)[2]
         ELSE StatsUpTo(k - 1)

\* C38: generates_stats is true exactly when some method generates stats;
\* step then returns the pair of the point and the stats of the methods
\* that generate stats, concatenated in the order of the methods, with
\* nothing for the other methods; when no method generates stats it
\* returns the point alone
C38_Stats ==
    /\ compound.generates_stats
         <=> (\E k \in DOMAIN compound.methods :
                 compound.methods[k].generates_stats)
    /\ compound.pc = "returned" =>
         IF \E k \in DOMAIN compound.methods : compound.methods[k].generates_stats
         THEN /\ Len(compound.ret) = 2
              /\ compound.ret[1] = compound.point
              /\ compound.ret[2] = StatsUpTo(Len(compound.methods))
         ELSE compound.ret = <<compound.point>>

\* step has returned from three methods of which the first and the last
\* generate stats and the second does not: two stats, the first method's
\* first
C38_Witness ==
    /\ compound.pc = "returned"
    /\ Len(compound.methods) = 3
    /\ compound.methods[1].generates_stats
    /\ ~ compound.methods[2].generates_stats
    /\ compound.methods[3].generates_stats
    /\ Len(compound.ret) = 2
    /\ Len(compound.ret[2]) = 2
    /\ compound.ret[2][1].at = compound.arg
    /\ compound.ret[2][2].at = compound.called[3].in
    /\ compound.ret[2][1] # compound.ret[2][2]

====
